---- MODULE Spec2Model ----
(***************************************************************************)
(* State-machine model of the iommufd device / PASID attachment protocol:  *)
(*   drivers/iommu/iommufd/device.c  bind, unbind, attach, detach,         *)
(*                                   do_attach, auto_get_domain, setup_msi *)
(*   drivers/iommu/iommufd/pasid.c   pasid do_attach, do_replace, detach   *)
(* Calls are issued one at a time (the vfio caller holds dev_set->lock);   *)
(* a call that spans several shared-memory accesses advances th.pc.        *)
(***************************************************************************)
EXTENDS Integers, Sequences, FiniteSets, TLC

\* ---------------------------------------------------------------- bounds
NumDevs == 3        \* physical devices
NumActive == 2      \* devices whose driver issues calls in Spec
NumPasids == 1      \* PASIDs per device
NumManual == 1      \* manually created HWPTs that exist from the start
NumAuto == 2        \* object slots left for auto-created HWPTs
MaxMsiCalls == 2    \* the count of MSI cookie requests per HWPT stops here

Devices == 1..NumDevs
ActiveDevs == 1..NumActive
Pasids == 1..NumPasids
MaxHwpt == NumManual + NumAuto
HwptIds == 1..MaxHwpt
\* One IOAS owns every HWPT of the model; 0 is the NULL pointer / "no object".
ListHead == 0 - 1                \* list node of ioas->hwpt_list
Nodes == HwptIds \cup {ListHead}
POISON == MaxHwpt + 1            \* LIST_POISON1/2 left by list_del
\* devices 1 and 2 share a device group, every later device has its own
DevGroup(d) == IF d <= 2 THEN 1 ELSE d - 1
Platforms == {"intr_remap", "msi_remap", "none"}

VARIABLES
    hwpt,       \* [HwptIds -> struct iommufd_hw_pagetable]
    ioas,       \* struct iommufd_ioas: mutex, iopt domains, iopt reserved ranges
    lst,        \* next/prev pointers of ioas->hwpt_list and each hwpt->hwpt_item
    idev,       \* [Devices -> struct iommufd_device]
    ext,        \* collaborators: DMA owner, group and context reference counts
    platform,   \* how the platform isolates MSIs
    th,         \* the call that is stepping: operation, position, locals, result
    parked      \* calls in progress on other CPUs, waiting to step

vars == <<hwpt, ioas, lst, idev, ext, platform, th, parked>>

\* ------------------------------------------------------------ object images
\* msi_calls is history: how often iommu_get_msi_cookie() was called on the
\* domain of the object, counted up to MaxMsiCalls
FreeHwpt == [state |-> "free", users |-> 0, auto_domain |-> FALSE,
             devices |-> <<>>, ecc |-> FALSE, msi_cookie |-> FALSE,
             groups |-> {}, msi_calls |-> 0, devices_lock |-> FALSE]
\* iommufd_object_alloc(): zeroed object holding the creation reference
NewHwpt(auto) == [FreeHwpt EXCEPT !.state = "new", !.users = 1,
                                  !.auto_domain = auto]
NoIdev == [state |-> "none", users |-> 0, hwpt |-> 0, ecc |-> FALSE,
           pasid_hwpts |-> [p \in Pasids |-> 0],
           hw_pasid |-> [p \in Pasids |-> 0]]
NoPre == [hwpt |-> <<>>, ioas |-> <<>>, idev |-> <<>>, lst |-> <<>>, ext |-> <<>>]
Idle == [op |-> "none", pc |-> "idle", dev |-> 0, pasid |-> 0, tgt |-> 0,
         flags |-> FALSE, cur |-> 0, curr |-> 0, rc |-> "OK", ret |-> 0,
         hwcalls |-> <<>>, skipped |-> {}, newh |-> 0, fail |-> "none",
         calls |-> <<>>, errs |-> {}, held |-> <<>>, pre |-> NoPre]

\* the kernel objects as one value, for the pure translations of the functions
K == [hwpt |-> hwpt, ioas |-> ioas, lst |-> lst, idev |-> idev, ext |-> ext]

\* the objects before any call: the manual HWPTs exist, nothing is bound
BaseK ==
    [hwpt |-> [h \in HwptIds |->
                 IF h <= NumManual
                 THEN [NewHwpt(FALSE) EXCEPT !.state = "final"]
                 ELSE FreeHwpt],
     ioas |-> [mutex |-> FALSE, domains |-> {}, resv |-> {}],
     lst |-> [n \in Nodes |->
                 IF n = ListHead THEN [next |-> ListHead, prev |-> ListHead]
                 ELSE [next |-> 0, prev |-> 0]],
     idev |-> [d \in Devices |-> NoIdev],
     ext |-> [owner |-> [d \in Devices |-> FALSE],
              group_refs |-> [g \in {DevGroup(d) : d \in Devices} |-> 0],
              ctx_refs |-> 0]]

InitK(k) ==
    /\ hwpt = k.hwpt
    /\ ioas = k.ioas
    /\ lst = k.lst
    /\ idev = k.idev
    /\ ext = k.ext

Init ==
    /\ platform \in Platforms
    /\ th = Idle
    /\ parked = <<>>
    /\ InitK(BaseK)

\* ------------------------------------------------------------- list.h
\* a pointer the list code may follow: the head or a live HWPT object
ValidNode(k, n) == n = ListHead \/ (n \in HwptIds /\ k.hwpt[n].state # "free")

\* list_add_tail(&hwpt->hwpt_item, &ioas->hwpt_list): four pointer stores,
\* whatever the state of the item (it is not checked for being linked already)
ListAddTail(L, new) ==
    LET prev == L[ListHead].prev
        L1 == [L EXCEPT ![ListHead].prev = new]
        L2 == [L1 EXCEPT ![new].next = ListHead]
        L3 == [L2 EXCEPT ![new].prev = prev]
    IN  [L3 EXCEPT ![prev].next = new]

\* list_del(&hwpt->hwpt_item): unlink from the neighbours, poison the item
ListDel(L, e) ==
    LET next == L[e].next
        prev == L[e].prev
        L1 == [L EXCEPT ![next].prev = prev]
        L2 == [L1 EXCEPT ![prev].next = next]
    IN  [L2 EXCEPT ![e] = [next |-> POISON, prev |-> POISON]]

\* the entries list_for_each_entry visits from the head, in order, for as long
\* as the pointers lead through live objects (at most MaxHwpt + 1 hops)
RECURSIVE WalkFrom(_, _, _)
WalkFrom(k, n, fuel) ==
    IF fuel = 0 \/ n = ListHead \/ ~ValidNode(k, n) THEN <<>>
    ELSE <<n>> \o WalkFrom(k, k.lst[n].next, fuel - 1)
HwptList(k) == WalkFrom(k, k.lst[ListHead].next, MaxHwpt + 1)

SeqRemove(s, x) == SelectSeq(s, LAMBDA y : y # x)
SeqSet(s) == {s[i] : i \in 1..Len(s)}

\* ------------------------------------------------------------- refcount
\* refcount_inc(&hwpt->obj.users) / refcount_dec(&hwpt->obj.users)
RefIncTwice(k, h) == [k EXCEPT !.hwpt[h].users = @ + 2]
RefInc(k, h) == [k EXCEPT !.hwpt[h].users = @ + 1]
RefDecForgotten(k, h) == k
RefDec(k, h) == [k EXCEPT !.hwpt[h].users = @ - 1]

\* ------------------------------------------------------------- device.c
\* list_empty(&hwpt->devices)
ListEmptyAlways(devices) == TRUE
ListEmpty(devices) == devices = <<>>

HasGroupNever(devices, group) == FALSE
\* iommufd_hw_pagetable_has_group()
HasGroup(devices, group) ==
    \E i \in 1..Len(devices) : DevGroup(devices[i]) = group

\* What the collaborators answer during one do_attach: the first external
\* call that fails (if it is made at all) and the error it returns.
\*   coh          ops->enforce_cache_coherency is absent or returns false
\*   swmsi0       the reserved regions report no software MSI window
\*   cookie_nodev iommu_get_msi_cookie returns -ENODEV (tolerated)
DoAttachInputs ==
    [fail : {"none", "coh", "swmsi0", "cookie_nodev"}, err : {"OK"}]
    \cup [fail : {"resv", "cookie", "group", "domain"}, err : {"EINVAL", "ENOMEM"}]

SetupMsiAlwaysOk(cookie, flags, in) ==
    [rc |-> "OK", cookie |-> cookie, called |-> FALSE]
\* setup_msi without the test of hwpt->msi_cookie at line 171
SetupMsiNoCookieTest(cookie, flags, in) ==
    IF platform = "intr_remap" THEN [rc |-> "OK", cookie |-> cookie, called |-> FALSE]
    ELSE IF platform = "msi_remap" THEN
        IF in.fail = "swmsi0" THEN [rc |-> "EPERM", cookie |-> cookie, called |-> FALSE]
        ELSE IF in.fail = "cookie" THEN [rc |-> in.err, cookie |-> cookie, called |-> TRUE]
        ELSE [rc |-> "OK", cookie |-> TRUE, called |-> TRUE]
    ELSE IF ~flags THEN [rc |-> "EPERM", cookie |-> cookie, called |-> FALSE]
    ELSE [rc |-> "OK", cookie |-> cookie, called |-> FALSE]
\* iommufd_device_setup_msi(): [rc, cookie, called] for an HWPT whose
\* msi_cookie is `cookie`; called tells whether iommu_get_msi_cookie() was
SetupMsi(cookie, flags, in) ==
    IF platform = "intr_remap" THEN [rc |-> "OK", cookie |-> cookie, called |-> FALSE]
    ELSE IF platform = "msi_remap" THEN
        IF in.fail = "swmsi0" THEN [rc |-> "EPERM", cookie |-> cookie, called |-> FALSE]
        ELSE IF cookie THEN [rc |-> "OK", cookie |-> cookie, called |-> FALSE]
        ELSE IF in.fail = "cookie" THEN [rc |-> in.err, cookie |-> cookie, called |-> TRUE]
        ELSE [rc |-> "OK", cookie |-> TRUE, called |-> TRUE]
    ELSE IF ~flags THEN [rc |-> "EPERM", cookie |-> cookie, called |-> FALSE]
    ELSE [rc |-> "OK", cookie |-> cookie, called |-> FALSE]

\* out_iova: iopt_remove_reserved_iova(&hwpt->ioas->iopt, idev->dev)
RemoveReservedIova(resv, d) == resv \ {d}

\* out_detach: iommu_detach_group(hwpt->domain, idev->group)
UnwindGroup(groups, g) == groups \ {g}

AttachCommitNoPtr(k, d, h) ==
    [k EXCEPT !.hwpt[h].users = @ + 1,
              !.hwpt[h].devices = <<d>> \o @]
\* line 253: idev->hwpt = hwpt
CommitStore(k, d, h) == [k EXCEPT !.idev[d].hwpt = h]
CommitCountForgotten(k, d, h) == k
\* line 254: refcount_inc(&hwpt->obj.users)
CommitCount(k, d, h) == [k EXCEPT !.hwpt[h].users = @ + 1]
\* line 255: list_add(&idev->devices_item, &hwpt->devices)
CommitListAdd(k, d, h) == [k EXCEPT !.hwpt[h].devices = <<d>> \o @]
\* the success tail of do_attach: idev->hwpt = hwpt; refcount_inc; list_add
AttachCommit(k, d, h) ==
    CommitListAdd(CommitCount(CommitStore(k, d, h), d, h), d, h)

\* lines 221-225: the upgrade was needed and the HWPT still does not enforce
CoherencyIgnored(needUpg, ecc1) == FALSE
CoherencyBlocks(needUpg, ecc1) == needUpg /\ ~ecc1

\* iommufd_device_do_attach(): [k, rc, at] where at names the failing step
DoAttach(k, d, h, flags, in) ==
    LET H == k.hwpt[h]
        g == DevGroup(d)
        needUpg == k.idev[d].ecc /\ ~H.ecc
        ecc1 == IF needUpg THEN in.fail # "coh" ELSE H.ecc
        k1 == [k EXCEPT !.hwpt[h].ecc = ecc1]
        \* iopt_table_enforce_group_resv_regions(): records owned by the device
        k2 == [k1 EXCEPT !.ioas.resv = @ \cup {d}]
        msi == SetupMsi(H.msi_cookie, flags, in)
        k3 == [k2 EXCEPT !.hwpt[h].msi_cookie = msi.cookie,
                         !.hwpt[h].msi_calls =
                             IF msi.called /\ @ < MaxMsiCalls THEN @ + 1 ELSE @]
        newGroup == ~HasGroup(H.devices, g)
        k4 == IF newGroup THEN [k3 EXCEPT !.hwpt[h].groups = @ \cup {g}] ELSE k3
        first == ListEmpty(H.devices)
        k5 == IF first THEN [k4 EXCEPT !.ioas.domains = @ \cup {h}] ELSE k4
        OutIova(kk) == [kk EXCEPT !.ioas.resv = RemoveReservedIova(@, d)]
        \* the calls made on the domain so far, in order
        c3 == IF msi.called THEN <<"get_msi_cookie">> ELSE <<>>
        c4 == IF newGroup THEN Append(c3, "attach_group") ELSE c3
        c5 == IF first THEN Append(c4, "add_domain") ELSE c4
    IN  IF CoherencyBlocks(needUpg, ecc1)
        THEN [k |-> k1, rc |-> "EINVAL", at |-> "coh", calls |-> <<>>]
        ELSE IF in.fail = "resv"
        THEN [k |-> OutIova(k1), rc |-> in.err, at |-> "resv", calls |-> <<>>]
        ELSE IF msi.rc # "OK"
        THEN [k |-> OutIova(k3), rc |-> msi.rc, at |-> "msi", calls |-> c3]
        ELSE IF newGroup /\ in.fail = "group"
        THEN [k |-> OutIova(k3), rc |-> in.err, at |-> "group", calls |-> c4]
        ELSE IF first /\ in.fail = "domain"
        THEN [k |-> OutIova([k4 EXCEPT !.hwpt[h].groups = UnwindGroup(@, g)]),
              rc |-> in.err, at |-> "domain",
              calls |-> Append(c5, "detach_group")]
        ELSE [k |-> AttachCommit(k5, d, h), rc |-> "OK", at |-> "none",
              calls |-> c5]

\* the objects at line 252 of a do_attach that is going to succeed: every
\* check has passed, the success tail has not begun
DoAttachChecked(k, d, h, flags, in) ==
    LET H == k.hwpt[h]
        msi == SetupMsi(H.msi_cookie, flags, in)
        k1 == [k EXCEPT !.hwpt[h].ecc = H.ecc \/ k.idev[d].ecc,
                        !.ioas.resv = @ \cup {d},
                        !.hwpt[h].msi_cookie = msi.cookie,
                        !.hwpt[h].msi_calls =
                            IF msi.called /\ @ < MaxMsiCalls THEN @ + 1 ELSE @]
        k2 == IF ~HasGroup(H.devices, DevGroup(d))
              THEN [k1 EXCEPT !.hwpt[h].groups = @ \cup {DevGroup(d)}] ELSE k1
    IN  IF ListEmpty(H.devices) THEN [k2 EXCEPT !.ioas.domains = @ \cup {h}]
        ELSE k2

\* iommufd_object_destroy_user() on an HWPT: drop the caller's reference, then
\* the creating one if it is the only one left, which destroys the object
HwptDestroyUser(k, h) ==
    IF k.hwpt[h].users - 1 = 1
    THEN [k EXCEPT !.hwpt[h] = FreeHwpt, !.lst[h] = [next |-> 0, prev |-> 0]]
    ELSE [k EXCEPT !.hwpt[h].users = @ - 1]

HwPagetableKept(k, h) == k
HwPagetablePutPlain(k, h) == [k EXCEPT !.hwpt[h].users = @ - 1]
\* device.c:408-411 and iommufd_hw_pagetable_put(): an auto-created HWPT is
\* destroyed with its last user, any other HWPT just loses the reference
HwPagetablePut(k, h) ==
    IF k.hwpt[h].auto_domain THEN HwptDestroyUser(k, h)
    ELSE [k EXCEPT !.hwpt[h].users = @ - 1]

\* list_del(&hwpt->hwpt_item) in detach faults unless the item's pointers lead
\* to live list nodes
ListDelFaults(k, h) ==
    ~(ValidNode(k, k.lst[h].next) /\ ValidNode(k, k.lst[h].prev))

\* the locked region of iommufd_device_detach()
DetachLocked(k, d) ==
    LET h == k.idev[d].hwpt
        g == DevGroup(d)
        devs == SeqRemove(k.hwpt[h].devices, d)
        k1 == [k EXCEPT !.hwpt[h].devices = devs]
        k2 == IF ListEmpty(devs)
              THEN [k1 EXCEPT !.ioas.domains = @ \ {h},
                              !.lst = ListDel(@, h)]
              ELSE k1
    IN  IF HasGroup(devs, g) THEN k1
        ELSE [k2 EXCEPT !.ioas.resv = RemoveReservedIova(@, d),
                        !.hwpt[h].groups = @ \ {g}]

\* the calls the locked region of detach makes on the domain, in order
DetachCalls(k, d) ==
    LET h == k.idev[d].hwpt
        devs == SeqRemove(k.hwpt[h].devices, d)
    IN  IF HasGroup(devs, DevGroup(d)) THEN <<>>
        ELSE (IF ListEmpty(devs) THEN <<"remove_domain">> ELSE <<>>)
             \o <<"detach_group">>

\* iommufd_device_detach()
DeviceDetach(k, d) ==
    LET h == k.idev[d].hwpt
        k1 == HwPagetablePut(DetachLocked(k, d), h)
    IN  [k1 EXCEPT !.idev[d].hwpt = 0, !.idev[d].users = @ - 1]

\* ------------------------------------------------------------ plumbing
SetK(k) ==
    /\ hwpt' = k.hwpt
    /\ ioas' = k.ioas
    /\ lst' = k.lst
    /\ idev' = k.idev
    /\ ext' = k.ext

\* a call enters: the caller's view of the state before it is kept in th.pre
Enter(op, d, p, h, flags) ==
    [Idle EXCEPT !.op = op, !.dev = d, !.pasid = p, !.tgt = h,
                 !.flags = flags, !.pre = K]

Done(t, rc, ret) == [t EXCEPT !.pc = "done", !.rc = rc, !.ret = ret]

IsIdle == th.pc = "idle"
Bound(d) == idev[d].state = "bound"


Oops(t) == [t EXCEPT !.pc = "oops"]    \* the thread faulted inside the kernel
NoFail == [fail |-> "none", err |-> "OK"]

\* ------------------------------------------------------- bind / unbind
\* iommu_group_get(dev) / iommu_group_put(group)
GroupGet(k, d) == [k EXCEPT !.ext.group_refs[DevGroup(d)] = @ + 1]
GroupPut(k, d) == [k EXCEPT !.ext.group_refs[DevGroup(d)] = @ - 1]
\* iommu_device_claim_dma_owner(dev, ictx) / iommu_device_release_dma_owner(dev)
ClaimDmaOwner(k, d) == [k EXCEPT !.ext.owner[d] = TRUE]
ReleaseDmaOwnerForgotten(k, d) == k
ReleaseDmaOwner(k, d) == [k EXCEPT !.ext.owner[d] = FALSE]

\* lines 80-103: the binding object, holding the creation reference and the
\* calling driver's, and a reference on the context
BindFinish(k, d, ecc) ==
    [k EXCEPT !.idev[d] = [NoIdev EXCEPT !.state = "bound", !.users = 2,
                                         !.ecc = ecc],
              !.ext.ctx_refs = @ + 1]

\* iommufd_device_bind(), success path
BindOk(k, d, ecc) == BindFinish(ClaimDmaOwner(GroupGet(k, d), d), d, ecc)

\* iommufd_device_bind(): the return value of each way out
BindRc(out) ==
    CASE out = "ok" -> "OK"
      [] out = "nocap" -> "EINVAL"
      [] out = "nogroup" -> "ENODEV"
      [] out = "owned" -> "EBUSY"
      [] OTHER -> "ENOMEM"

\* iommufd_device_bind() step by step: the objects it leaves and the calls it
\* made on the group and on the DMA ownership of the device
BindDevice(k, d, out, ecc) ==
    IF out = "nocap" THEN [k |-> k, calls |-> <<>>]
    ELSE IF out = "nogroup" THEN [k |-> k, calls |-> <<"group_get">>]
    ELSE LET k1 == GroupGet(k, d) IN
    IF out = "owned"
    THEN [k |-> GroupPut(k1, d),
          calls |-> <<"group_get", "claim_dma_owner", "group_put">>]
    ELSE LET k2 == ClaimDmaOwner(k1, d) IN
    IF out = "nomem"
    THEN [k |-> GroupPut(ReleaseDmaOwner(k2, d), d),
          calls |-> <<"group_get", "claim_dma_owner", "object_alloc",
                      "release_dma_owner", "group_put">>]
    ELSE [k |-> BindFinish(k2, d, ecc),
          calls |-> <<"group_get", "claim_dma_owner", "object_alloc">>]

DeviceBind(d) ==
    /\ IsIdle
    /\ idev[d].state = "none"
    /\ \E out \in {"ok", "nocap", "nogroup", "owned", "nomem"}, ecc \in BOOLEAN :
        LET r == BindDevice(K, d, out, ecc)
        IN  /\ SetK(r.k)
            /\ th' = [Done(Enter("bind", d, 0, 0, FALSE), BindRc(out), 0)
                         EXCEPT !.calls = r.calls]
    /\ UNCHANGED <<platform, parked>>

\* iommufd_device_destroy()
DeviceDestroy(k, d) ==
    [k EXCEPT !.idev[d] = NoIdev,
              !.ext.owner[d] = FALSE,
              !.ext.group_refs[DevGroup(d)] = @ - 1,
              !.ext.ctx_refs = @ - 1]

\* iommufd_object_destroy_user() on a binding: the caller's reference is
\* dropped, and the object is destroyed if only the creation one is left
IdevDestroyAlways(k, d) == DeviceDestroy(k, d)
IdevDestroyUser(k, d) ==
    IF k.idev[d].users - 1 = 1
    THEN DeviceDestroy(k, d)
    ELSE [k EXCEPT !.idev[d].users = @ - 1, !.idev[d].state = "zombie"]

\* iommufd_device_unbind(): iommufd_object_destroy_user() on the binding
DeviceUnbind(d) ==
    /\ IsIdle
    /\ Bound(d)
    /\ \A p \in Pasids : idev[d].pasid_hwpts[p] = 0
    /\ SetK(IdevDestroyUser(K, d))
    /\ th' = Done(Enter("unbind", d, 0, 0, FALSE),
                  IF idev[d].users - 1 = 1 THEN "OK" ELSE "WARN", 0)
    /\ UNCHANGED <<platform, parked>>

\* ------------------------------------------------ attach through an HWPT id
\* iommufd_device_attach(): list_add_tail under ioas->mutex after do_attach,
\* then refcount_inc(&idev->obj.users)
DirectPublish(k, d, h) ==
    [k EXCEPT !.lst = ListAddTail(@, h), !.idev[d].users = @ + 1]

\* iommufd_device_attach(), case IOMMUFD_OBJ_HW_PAGETABLE, up to do_attach
AttachHwptDo(d, h) ==
    /\ IsIdle
    /\ Bound(d) /\ idev[d].hwpt = 0
    /\ hwpt[h].state = "final"
    /\ \E flags \in BOOLEAN, in \in DoAttachInputs :
        LET r == DoAttach(K, d, h, flags, in)
            t == [Enter("attach_hwpt", d, 0, h, flags) EXCEPT
                     !.fail = r.at, !.calls = r.calls]
        IN  /\ SetK(r.k)
            /\ th' = IF r.rc = "OK" THEN [t EXCEPT !.pc = "at_list"]
                     ELSE Done(t, r.rc, 0)
    /\ UNCHANGED <<platform, parked>>

AttachHwptList ==
    /\ th.pc = "at_list"
    /\ ~ioas.mutex
    /\ IF ValidNode(K, lst[ListHead].prev)
       THEN /\ SetK(DirectPublish(K, th.dev, th.tgt))
            /\ th' = Done(th, "OK", idev[th.dev].hwpt)
       ELSE /\ th' = Oops(th)
            /\ UNCHANGED <<hwpt, ioas, lst, idev, ext>>
    /\ UNCHANGED <<platform, parked>>

\* iommufd_device_attach(), default case: the id names no pagetable and no IOAS
AttachBadId(d) ==
    /\ IsIdle
    /\ Bound(d) /\ idev[d].hwpt = 0
    /\ th' = Done(Enter("attach_bad", d, 0, 0, FALSE), "EINVAL", 0)
    /\ UNCHANGED <<hwpt, ioas, lst, idev, ext, platform, parked>>

\* ------------------------------------------------- attach through the IOAS
\* list_for_each_entry starts at the entry after the head
ScanLast(L) == L[ListHead].prev
ScanFirst(L) == L[ListHead].next

\* iommufd_device_auto_get_domain(): mutex_lock(&ioas->mutex), first entry
AutoLock(d) ==
    /\ IsIdle
    /\ Bound(d) /\ idev[d].hwpt = 0
    /\ ~ioas.mutex
    /\ \E flags \in BOOLEAN :
        th' = [Enter("attach_ioas", d, 0, 0, flags) EXCEPT
                  !.pc = "ag_scan", !.cur = ScanFirst(lst)]
    /\ ioas' = [ioas EXCEPT !.mutex = TRUE]
    /\ UNCHANGED <<hwpt, lst, idev, ext, platform, parked>>

\* which entry the scan moves to after `cur`
ScanNext(L, cur) == L[cur].next

ScanCandidateAny(H) == H.users > 0
\* does the scan try do_attach on this entry (auto_domain, and
\* refcount_inc_not_zero succeeds)
ScanCandidate(H) == H.auto_domain /\ H.users > 0

\* a found HWPT: mutex_unlock, and back in iommufd_device_attach the
\* refcount_inc(&idev->obj.users)
AutoFound(k, d) ==
    [k EXCEPT !.ioas.mutex = FALSE, !.idev[d].users = @ + 1]

\* lines 294-301: which results of do_attach make the scan go on
ScanSkipsAny(rc) == rc # "OK"
ScanSkips(rc) == rc = "EINVAL"

\* one iteration of list_for_each_entry in auto_get_domain
AutoScan ==
    /\ th.pc = "ag_scan"
    /\ th.cur # ListHead
    /\ IF ~ValidNode(K, th.cur)
       THEN /\ th' = Oops(th)
            /\ UNCHANGED <<hwpt, ioas, lst, idev, ext>>
       ELSE IF ~ScanCandidate(hwpt[th.cur])
       THEN /\ th' = [th EXCEPT !.cur = ScanNext(lst, th.cur)]
            /\ UNCHANGED <<hwpt, ioas, lst, idev, ext>>
       ELSE \E in \in DoAttachInputs :
            \* refcount_inc_not_zero; do_attach; refcount_dec
            LET r == DoAttach(RefInc(K, th.cur), th.dev, th.cur, th.flags, in)
                k1 == RefDec(r.k, th.cur)
            IN  IF ScanSkips(r.rc)
                THEN /\ SetK(k1)
                     /\ th' = [th EXCEPT !.cur = ScanNext(lst, th.cur),
                                         !.skipped = @ \cup {th.cur},
                                         !.errs = @ \cup {r.rc},
                                         !.calls = r.calls]
                ELSE IF r.rc # "OK"
                THEN /\ SetK([k1 EXCEPT !.ioas.mutex = FALSE])
                     /\ th' = Done([th EXCEPT !.fail = r.at, !.calls = r.calls],
                                   r.rc, 0)
                ELSE /\ SetK(AutoFound(k1, th.dev))
                     /\ th' = Done([th EXCEPT !.tgt = th.cur,
                                             !.calls = r.calls], "OK", th.cur)
    /\ UNCHANGED <<platform, parked>>

\* the object slot iommufd_hw_pagetable_alloc() hands out
HasFreeSlot(k) == \E h \in HwptIds : k.hwpt[h].state = "free"
FreeSlot(k) == CHOOSE h \in HwptIds :
                  /\ k.hwpt[h].state = "free"
                  /\ \A o \in HwptIds : k.hwpt[o].state = "free" => h <= o

\* iommufd_hw_pagetable_alloc() and hwpt->auto_domain = true
AllocAuto(k) ==
    [k EXCEPT !.hwpt[FreeSlot(k)] = NewHwpt(TRUE),
              !.lst[FreeSlot(k)] = [next |-> 0, prev |-> 0]]

\* the scan ended without an attach: allocate
AutoAlloc ==
    /\ th.pc = "ag_scan"
    /\ th.cur = ListHead
    /\ \/ /\ HasFreeSlot(K)
          /\ SetK(AllocAuto(K))
          /\ th' = [th EXCEPT !.pc = "ag_new", !.newh = FreeSlot(K)]
       \/ /\ SetK([K EXCEPT !.ioas.mutex = FALSE])
          /\ th' = Done(th, "ENOMEM", 0)
    /\ UNCHANGED <<platform, parked>>

\* auto_get_domain after do_attach on the new HWPT succeeded, line 316:
\* list_add_tail(&hwpt->hwpt_item, &ioas->hwpt_list), the mutex still held
AutoListAdd(k, h) == [k EXCEPT !.lst = ListAddTail(@, h)]

\* lines 318-320: mutex_unlock, iommufd_object_finalize; then in
\* iommufd_device_attach the idev users increment
AutoFinalize(k, d, h) ==
    [k EXCEPT !.hwpt[h].state = "final",
              !.ioas.mutex = FALSE,
              !.idev[d].users = @ + 1]

AutoPublish(k, d, h) == AutoFinalize(AutoListAdd(k, h), d, h)

\* out_abort: iommufd_object_abort_and_destroy(), mutex_unlock
AutoAbortKept(k, h) == [k EXCEPT !.ioas.mutex = FALSE]
AutoAbort(k, h) ==
    [k EXCEPT !.hwpt[h] = FreeHwpt, !.ioas.mutex = FALSE]

AutoAttachNew ==
    /\ th.pc = "ag_new"
    /\ \E in \in DoAttachInputs :
        LET h == th.newh
            r == DoAttach(K, th.dev, h, th.flags, in)
        IN  IF r.rc # "OK"
            THEN /\ SetK(AutoAbort(r.k, h))
                 /\ th' = Done([th EXCEPT !.fail = r.at, !.calls = r.calls],
                                   r.rc, 0)
            ELSE IF ~ValidNode(r.k, lst[ListHead].prev)
            THEN /\ SetK(r.k)
                 /\ th' = Oops(th)
            ELSE /\ SetK(AutoListAdd(r.k, h))
                 /\ th' = [th EXCEPT !.pc = "ag_fin", !.tgt = h,
                                     !.calls = r.calls]
    /\ UNCHANGED <<platform, parked>>

\* lines 318-320 and 379-381: unlock, finalize, return the id
AutoFinish ==
    /\ th.pc = "ag_fin"
    /\ SetK(AutoFinalize(K, th.dev, th.newh))
    /\ th' = Done(th, "OK", th.newh)
    /\ UNCHANGED <<platform, parked>>

\* ------------------------------------------------------------------ detach
Detach(d) ==
    /\ IsIdle
    /\ idev[d].state # "none" /\ idev[d].hwpt # 0
    /\ ~ioas.mutex
    /\ LET h == idev[d].hwpt
           t == Enter("detach", d, 0, h, FALSE)
       IN  IF Len(hwpt[h].devices) = 1 /\ ListDelFaults(K, h)
           THEN /\ th' = Oops(t)
                /\ UNCHANGED <<hwpt, ioas, lst, idev, ext>>
           ELSE /\ SetK(DeviceDetach(K, d))
                /\ th' = Done([t EXCEPT !.calls = DetachCalls(K, d)], "OK", 0)
    /\ UNCHANGED <<platform, parked>>

\* the caller has seen the result
Return ==
    /\ th.pc = "done"
    /\ th' = Idle
    /\ UNCHANGED <<hwpt, ioas, lst, idev, ext, platform, parked>>

\* a driver unbinds after it has detached
Unbind(d) == idev[d].hwpt = 0 /\ DeviceUnbind(d)

\* the calls of device.c issued by the drivers of the devices in D
DeviceNext(D) ==
    \/ \E d \in D : DeviceBind(d)
    \/ \E d \in D : Unbind(d)
    \/ \E d \in D, h \in HwptIds : AttachHwptDo(d, h)
    \/ AttachHwptList
    \/ \E d \in D : AttachBadId(d)
    \/ \E d \in D : AutoLock(d)
    \/ AutoScan
    \/ AutoAlloc
    \/ AutoAttachNew
    \/ AutoFinish
    \/ \E d \in D : Detach(d)
    \/ Return

Next == DeviceNext(ActiveDevs)

Spec == Init /\ [][Next]_vars

\* ------------------------------------------- unbind at any time
\* The drivers may call unbind while the device is still attached, and detach
\* afterwards, against the contract of iommufd_device_unbind().
UnbindNext(D) ==
    \/ \E d \in D : DeviceBind(d)
    \/ \E d \in D : DeviceUnbind(d)
    \/ \E d \in D, h \in HwptIds : AttachHwptDo(d, h)
    \/ AttachHwptList
    \/ \E d \in D : AutoLock(d)
    \/ AutoScan
    \/ AutoAlloc
    \/ AutoAttachNew
    \/ AutoFinish
    \/ \E d \in D : Detach(d)
    \/ Return

SpecUnbind == Init /\ [][UnbindNext(ActiveDevs)]_vars

\* ---------------------------------------- every attach goes through the IOAS
\* The drivers of all the devices name the IOAS in every attach, so that the
\* member list is written by auto_get_domain and detach alone.
IoasNext(D) ==
    \/ \E d \in D : DeviceBind(d)
    \/ \E d \in D : Unbind(d)
    \/ \E d \in D : AutoLock(d)
    \/ AutoScan
    \/ AutoAlloc
    \/ AutoAttachNew
    \/ AutoFinish
    \/ \E d \in D : Detach(d)
    \/ Return

SpecIoas == Init /\ [][IoasNext(Devices)]_vars

\* ------------------------------------------- an IOAS that is already in use
\* Devices other than device 1 were bound and attached before: each of them
\* through the id of the manual HWPT 1 or through the IOAS with no compatible
\* HWPT in the list, in some order.  The states are built by the calls' own
\* translations, so each is a state a run of Spec with more active devices
\* reaches.
ScanDevs == {1}
Residents == Devices \ ScanDevs
SetupSteps == Residents \X {"direct", "auto"}
SetupSeqs ==
    {s \in UNION {[1..n -> SetupSteps] : n \in 0..Cardinality(Residents)} :
        \A i, j \in DOMAIN s : i # j => s[i][1] # s[j][1]}

SetupStep(k, d, how) ==
    IF how = "direct"
    THEN DirectPublish(DoAttach(k, d, 1, TRUE, NoFail).k, d, 1)
    ELSE LET h == FreeSlot(k)
         IN  AutoPublish(DoAttach(AllocAuto(k), d, h, TRUE, NoFail).k, d, h)

RECURSIVE ApplySetup(_, _)
ApplySetup(k, s) ==
    IF s = <<>> THEN k
    ELSE ApplySetup(SetupStep(k, s[1][1], s[1][2]), Tail(s))

RECURSIVE BindAll(_, _)
BindAll(k, D) ==
    IF D = {} THEN k
    ELSE LET d == CHOOSE x \in D : TRUE
         IN  BindAll(BindOk(k, d, FALSE), D \ {d})

InitScan ==
    /\ platform \in Platforms
    /\ th = Idle
    /\ parked = <<>>
    /\ \E s \in SetupSeqs :
        /\ Len(SelectSeq(s, LAMBDA e : e[2] = "auto")) <= NumAuto
        /\ InitK(ApplySetup(BindAll(BaseK, Residents), s))

SpecScan == InitScan /\ [][DeviceNext(ScanDevs)]_vars

\* ------------------------------------------------------------- pasid.c
HwErrs == {"EINVAL", "ENOMEM"}
PasidMap(k, d, p) == k.idev[d].pasid_hwpts[p]

\* xa_store / xa_cmpxchg / xa_erase on idev->pasid_hwpts
XaStoreEveryDevice(k, d, p, v) ==
    [k EXCEPT !.idev = [e \in Devices |-> [@[e] EXCEPT !.pasid_hwpts[p] = v]]]
XaStore(k, d, p, v) == [k EXCEPT !.idev[d].pasid_hwpts[p] = v]
XaEraseForgotten(k, d, p) == k
XaErase(k, d, p) == [k EXCEPT !.idev[d].pasid_hwpts[p] = 0]
\* what the hardware translates the PASID with
HwSetForgotten(k, d, p, v) == k
HwSet(k, d, p, v) == [k EXCEPT !.idev[d].hw_pasid[p] = v]

\* iommufd_device_pasid_do_attach(), line 17: the reference is taken first
PasidAttachCall(d, p, h) ==
    /\ IsIdle
    /\ Bound(d)
    /\ hwpt[h].state = "final"
    /\ SetK(RefInc(K, h))
    /\ th' = [Enter("pasid_attach", d, p, h, FALSE) EXCEPT !.pc = "pa_xa"]
    /\ UNCHANGED <<platform, parked>>

\* lines 20-23: the entry found is the target itself, or another HWPT
CmpxchgRcAlwaysBusy(old, tgt) == "EBUSY"
CmpxchgRc(old, tgt) == IF old = tgt THEN "OK" ELSE "EBUSY"

\* lines 18-25: xa_cmpxchg(.., NULL, hwpt); an entry that is there is returned
\* and left alone, a new entry needs memory
PaCmpxchg ==
    /\ th.pc = "pa_xa"
    /\ LET old == PasidMap(K, th.dev, th.pasid)
       IN  IF old # 0
           THEN /\ th' = [th EXCEPT !.pc = "pa_put", !.curr = old,
                             !.rc = CmpxchgRc(old, th.tgt)]
                /\ UNCHANGED <<hwpt, ioas, lst, idev, ext>>
           ELSE \/ /\ SetK(XaStore(K, th.dev, th.pasid, th.tgt))
                   /\ th' = [th EXCEPT !.pc = "pa_hw"]
                \/ /\ th' = [th EXCEPT !.pc = "pa_put", !.rc = "ENOMEM"]
                   /\ UNCHANGED <<hwpt, ioas, lst, idev, ext>>
    /\ UNCHANGED <<platform, parked>>

\* line 27: iommufd_hwpt_attach_device(); line 33: return NULL
PaHw ==
    /\ th.pc = "pa_hw"
    /\ \/ /\ SetK(HwSet(K, th.dev, th.pasid, th.tgt))
          /\ th' = Done([th EXCEPT !.hwcalls = Append(@, "attach")], "OK", 0)
       \/ /\ \E e \in HwErrs :
                th' = [th EXCEPT !.pc = "pa_erase", !.rc = e,
                                 !.hwcalls = Append(@, "attach")]
          /\ UNCHANGED <<hwpt, ioas, lst, idev, ext>>
    /\ UNCHANGED <<platform, parked>>

\* line 29: xa_erase after the failed setup
PaErase ==
    /\ th.pc = "pa_erase"
    /\ SetK(XaErase(K, th.dev, th.pasid))
    /\ th' = [th EXCEPT !.pc = "pa_put"]
    /\ UNCHANGED <<platform, parked>>

\* err_put_hwpt: refcount_dec; return ERR_PTR(rc)
PaPut ==
    /\ th.pc = "pa_put"
    /\ SetK(RefDec(K, th.tgt))
    /\ th' = Done(th, th.rc, 0)
    /\ UNCHANGED <<platform, parked>>

\* iommufd_device_pasid_do_replace(), line 47
PasidReplaceCall(d, p, h) ==
    /\ IsIdle
    /\ Bound(d)
    /\ hwpt[h].state = "final"
    /\ SetK(RefInc(K, h))
    /\ th' = [Enter("pasid_replace", d, p, h, FALSE) EXCEPT !.pc = "pr_xa"]
    /\ UNCHANGED <<platform, parked>>

\* where do_replace goes after xa_store returned `old`
ReplaceBranchEraseFirst(old, tgt) ==
    IF old = tgt THEN "pr_put" ELSE "pr_erase"
ReplaceBranch(old, tgt) ==
    IF old = 0 THEN "pr_erase" ELSE IF old = tgt THEN "pr_put" ELSE "pr_hw"

\* lines 48-60: xa_store(.., hwpt) returns the old entry; a new entry needs
\* memory
PrStore ==
    /\ th.pc = "pr_xa"
    /\ LET old == PasidMap(K, th.dev, th.pasid)
       IN  \/ /\ SetK(XaStore(K, th.dev, th.pasid, th.tgt))
              /\ th' = [th EXCEPT !.pc = ReplaceBranch(old, th.tgt),
                                  !.curr = old]
           \/ /\ old = 0
              /\ th' = [th EXCEPT !.pc = "pr_put", !.rc = "ENOMEM"]
              /\ UNCHANGED <<hwpt, ioas, lst, idev, ext>>
    /\ UNCHANGED <<platform, parked>>

\* lines 53-57: there was nothing to replace
PrErase ==
    /\ th.pc = "pr_erase"
    /\ SetK(XaErase(K, th.dev, th.pasid))
    /\ th' = [th EXCEPT !.pc = "pr_put", !.rc = "EINVAL"]
    /\ UNCHANGED <<platform, parked>>

\* line 66: iommufd_hwpt_replace_device(); line 74: return curr
PrHw ==
    /\ th.pc = "pr_hw"
    /\ \/ /\ SetK(HwSet(K, th.dev, th.pasid, th.tgt))
          /\ th' = [th EXCEPT !.pc = "pr_ret", !.ret = th.curr,
                              !.hwcalls = Append(@, "replace")]
       \/ /\ \E e \in HwErrs :
                th' = [th EXCEPT !.pc = "pr_restore", !.rc = e,
                                 !.hwcalls = Append(@, "replace")]
          /\ UNCHANGED <<hwpt, ioas, lst, idev, ext>>
    /\ UNCHANGED <<platform, parked>>

\* what line 68 stores back after the failed swap
RestoreValueNew(t) == t.tgt
RestoreValue(t) == t.curr

\* lines 68-70: the old entry is stored back
PrRestore ==
    /\ th.pc = "pr_restore"
    /\ SetK(XaStore(K, th.dev, th.pasid, RestoreValue(th)))
    /\ th' = [th EXCEPT !.pc = "pr_put"]
    /\ UNCHANGED <<platform, parked>>

\* out_put_hwpt: refcount_dec; return ERR_PTR(rc)
PrPut ==
    /\ th.pc = "pr_put"
    /\ SetK(RefDec(K, th.tgt))
    /\ th' = Done(th, th.rc, 0)
    /\ UNCHANGED <<platform, parked>>

\* the caller of do_replace disposes of the old HWPT it was handed
PrDispose ==
    /\ th.pc = "pr_ret"
    /\ SetK(HwPagetablePut(K, th.ret))
    /\ th' = Done(th, "OK", th.ret)
    /\ UNCHANGED <<platform, parked>>

\* iommufd_device_pasid_detach(), lines 151-155: erase, teardown, put
PasidDetachNoPut(k, d, p) == HwSet(XaErase(k, d, p), d, p, 0)
PasidDetachFound(k, d, p) ==
    HwPagetablePut(HwSet(XaErase(k, d, p), d, p, 0), PasidMap(k, d, p))

\* iommufd_device_pasid_detach()
PasidDetach(d, p) ==
    /\ IsIdle
    /\ Bound(d)
    /\ LET h == PasidMap(K, d, p)
           t == Enter("pasid_detach", d, p, h, FALSE)
       IN  IF h = 0
           THEN /\ th' = Done(t, "WARN", 0)
                /\ UNCHANGED <<hwpt, ioas, lst, idev, ext>>
           ELSE /\ SetK(PasidDetachFound(K, d, p))
                /\ th' = Done([t EXCEPT !.hwcalls = <<"detach">>], "OK", 0)
    /\ UNCHANGED <<platform, parked>>

PasidNext(D) ==
    \/ \E d \in D, p \in Pasids, h \in HwptIds : PasidAttachCall(d, p, h)
    \/ PaCmpxchg
    \/ PaHw
    \/ PaErase
    \/ PaPut
    \/ \E d \in D, p \in Pasids, h \in HwptIds : PasidReplaceCall(d, p, h)
    \/ PrStore
    \/ PrErase
    \/ PrHw
    \/ PrRestore
    \/ PrPut
    \/ PrDispose
    \/ \E d \in D, p \in Pasids : PasidDetach(d, p)
    \/ \E d \in Devices : Detach(d)
    \/ Return

\* The PASID calls run on bound devices; the devices that issue none are
\* attached (or not) as in InitScan, so that auto-created HWPTs exist too.
PasidResidents == Devices \ ActiveDevs
InitPasid ==
    /\ platform \in Platforms
    /\ th = Idle
    /\ parked = <<>>
    /\ \E s \in SetupSeqs :
        /\ \A i \in DOMAIN s : s[i][1] \in PasidResidents
        /\ Len(SelectSeq(s, LAMBDA e : e[2] = "auto")) <= NumAuto
        /\ InitK(ApplySetup(BindAll(BaseK, Devices), s))

SpecPasid == InitPasid /\ [][PasidNext(ActiveDevs)]_vars

\* --------------------------- the stores of a reference, statement by statement
\* iommufd_device_attach() by HWPT id, up to and including line 253 of
\* do_attach: the pointer is stored, the reference is not counted yet
AttachHwptStore(d, h) ==
    /\ IsIdle
    /\ Bound(d) /\ idev[d].hwpt = 0
    /\ hwpt[h].state = "final"
    /\ \E flags \in BOOLEAN, in \in DoAttachInputs :
        LET r == DoAttach(K, d, h, flags, in)
            t == [Enter("attach_hwpt", d, 0, h, flags) EXCEPT
                     !.fail = r.at, !.calls = r.calls]
        IN  IF r.rc = "OK"
            THEN /\ SetK(CommitStore(DoAttachChecked(K, d, h, flags, in), d, h))
                 /\ th' = [t EXCEPT !.pc = "da_count"]
            ELSE /\ SetK(r.k)
                 /\ th' = Done(t, r.rc, 0)
    /\ UNCHANGED <<platform, parked>>

\* lines 254-256: refcount_inc, list_add, mutex_unlock
AttachHwptCount ==
    /\ th.pc = "da_count"
    /\ SetK(CommitListAdd(CommitCount(K, th.dev, th.tgt), th.dev, th.tgt))
    /\ th' = [th EXCEPT !.pc = "at_list"]
    /\ UNCHANGED <<platform, parked>>

RefNext(D) ==
    \/ \E d \in D, h \in HwptIds : AttachHwptStore(d, h)
    \/ AttachHwptCount
    \/ AttachHwptList
    \/ \E d \in D, p \in Pasids, h \in HwptIds : PasidAttachCall(d, p, h)
    \/ PaCmpxchg
    \/ PaHw
    \/ PaErase
    \/ PaPut
    \/ \E d \in D, p \in Pasids, h \in HwptIds : PasidReplaceCall(d, p, h)
    \/ PrStore
    \/ PrErase
    \/ PrHw
    \/ PrRestore
    \/ PrPut
    \/ PrDispose
    \/ \E d \in D, p \in Pasids : PasidDetach(d, p)
    \/ \E d \in D : Detach(d)
    \/ Return

RefDevs == {1}
InitRef ==
    /\ platform \in Platforms
    /\ th = Idle
    /\ parked = <<>>
    /\ \E s \in SetupSeqs :
        /\ \A i \in DOMAIN s : s[i][1] \in Devices \ RefDevs
        /\ Len(SelectSeq(s, LAMBDA e : e[2] = "auto")) <= NumAuto
        /\ InitK(ApplySetup(BindAll(BaseK, Devices), s))

SpecRef == InitRef /\ [][RefNext(RefDevs)]_vars

\* ------------------------------------------ the attach ioctl of the device file
\* vfio_df_ioctl_attach_pt(): with VFIO_DEVICE_ATTACH_PASID the pasid_attach_ioas
\* op is called, attach_ioas otherwise; the ops of a physical device call
\* iommufd_device_pasid_attach() and iommufd_device_attach().  A call of
\* either kind that has returned is at "done" with the handler's ret in th.rc.
IoctlAttachOps == {"attach_hwpt", "attach_ioas", "pasid_attach"}
WithPasidFlag(t) == t.op = "pasid_attach"

\* lines 226-235: the argument cannot be copied in or is malformed, or the
\* flag is set and the device has no pasid_attach_ioas op
IoctlAttachRejected(d) ==
    /\ IsIdle
    /\ Bound(d)
    /\ \E e \in {"EFAULT", "EINVAL", "EOPNOTSUPP"} :
          th' = Done(Enter("attach_rejected", d, 0, 0, FALSE), e, 0)
    /\ UNCHANGED <<hwpt, ioas, lst, idev, ext, platform, parked>>

\* device->ops->detach_ioas(device) faults in list_del of the member list
DetachIoasFaults(k, d) ==
    LET h == k.idev[d].hwpt
    IN  h # 0 /\ Len(k.hwpt[h].devices) = 1 /\ ListDelFaults(k, h)
\* out_detach with the op that undoes the attach just made
DetachOpMatching(k, t) ==
    IF WithPasidFlag(t) THEN PasidDetachFound(k, t.dev, t.pasid)
    ELSE DeviceDetach(k, t.dev)
\* out_detach, line 255: device->ops->detach_ioas(device), whatever the flag
\* of the attach was.  The op detaches the default attachment if there is
\* one and does nothing otherwise.
DetachOp(k, t) ==
    IF k.idev[t.dev].hwpt = 0 THEN k ELSE DeviceDetach(k, t.dev)

\* lines 246-259: copy_to_user(&arg->pt_id) fails after the op has succeeded
IoctlCopyFault ==
    /\ th.pc = "done" /\ th.rc = "OK"
    /\ th.op \in IoctlAttachOps
    /\ ~ioas.mutex
    /\ IF DetachIoasFaults(K, th.dev)
       THEN /\ th' = Oops(th)
            /\ UNCHANGED <<hwpt, ioas, lst, idev, ext>>
       ELSE /\ SetK(DetachOp(K, th))
            /\ th' = [th EXCEPT !.pc = "io_err", !.rc = "EFAULT"]
    /\ UNCHANGED <<platform, parked>>

\* line 259: return ret
IoctlReturnError ==
    /\ th.pc = "io_err"
    /\ th' = Idle
    /\ UNCHANGED <<hwpt, ioas, lst, idev, ext, platform, parked>>

\* the ioctls on the device file of the devices in D; Return is the handler
\* returning 0 after copy_to_user, or the error of the op
IoctlNext(D) ==
    \/ \E d \in D : IoctlAttachRejected(d)
    \/ \E d \in D, h \in HwptIds : AttachHwptDo(d, h)
    \/ AttachHwptList
    \/ \E d \in D : AutoLock(d)
    \/ AutoScan
    \/ AutoAlloc
    \/ AutoAttachNew
    \/ AutoFinish
    \/ \E d \in D, p \in Pasids, h \in HwptIds : PasidAttachCall(d, p, h)
    \/ PaCmpxchg
    \/ PaHw
    \/ PaErase
    \/ PaPut
    \/ IoctlCopyFault
    \/ IoctlReturnError
    \/ \E d \in D, p \in Pasids : PasidDetach(d, p)
    \/ \E d \in D : Detach(d)
    \/ Return

SpecIoctl == InitRef /\ [][IoctlNext(RefDevs)]_vars

\* ------------------------------------------- PASID calls on several CPUs
\* The callers guarantee no two calls at a time on one (device, PASID) key;
\* calls on different keys run on different CPUs and their steps interleave.
NumParked == 1      \* CPUs besides the one that is stepping
InFlight(t) == t.pc \notin {"idle", "done"}
KeyBusy(d, p) ==
    \E i \in DOMAIN parked :
        InFlight(parked[i]) /\ parked[i].dev = d /\ parked[i].pasid = p

\* another CPU's call takes the next step (the result of a finished call is
\* consumed on the CPU that ran it)
Switch(i) ==
    /\ th.pc # "done"
    /\ InFlight(th) \/ InFlight(parked[i])
    /\ th' = parked[i]
    /\ parked' = [parked EXCEPT ![i] = th]
    /\ UNCHANGED <<hwpt, ioas, lst, idev, ext, platform>>

ConcNext ==
    \/ \E d \in ActiveDevs, p \in Pasids, h \in HwptIds :
          ~KeyBusy(d, p) /\ PasidAttachCall(d, p, h)
    \/ PaCmpxchg
    \/ PaHw
    \/ PaErase
    \/ PaPut
    \/ \E d \in ActiveDevs, p \in Pasids, h \in HwptIds :
          ~KeyBusy(d, p) /\ PasidReplaceCall(d, p, h)
    \/ PrStore
    \/ PrErase
    \/ PrHw
    \/ PrRestore
    \/ PrPut
    \/ PrDispose
    \/ \E d \in ActiveDevs, p \in Pasids : ~KeyBusy(d, p) /\ PasidDetach(d, p)
    \/ \E d \in PasidResidents : Detach(d)
    \/ Return
    \/ \E i \in DOMAIN parked : Switch(i)

InitConc ==
    /\ platform = "intr_remap"
    /\ th = Idle
    /\ parked = [i \in 1..NumParked |-> Idle]
    /\ \E s \in SetupSeqs :
        /\ \A i \in DOMAIN s : s[i][1] \in PasidResidents
        /\ Len(SelectSeq(s, LAMBDA e : e[2] = "auto")) <= NumAuto
        /\ InitK(ApplySetup(BindAll(BaseK, Devices), s))

SpecConc == InitConc /\ [][ConcNext]_vars

\* ------------------------------------------------- the locks of device.c
\* The calls of device.c on several CPUs, one step per lock operation and per
\* locked region.  Thread 0 is th, thread i > 0 is parked[i].  A thread's
\* held is the locks it holds in the order it took them: IoasLock for
\* ioas->mutex, h for hwpt->devices_lock of HWPT h.  Thread i runs the calls
\* of the driver of device DevOf(i), one at a time; the platform remaps
\* interrupts, so the attach flags are not read.
Threads == 0..NumParked
IoasLock == 0
Thr(i) == IF i = 0 THEN th ELSE parked[i]
SetThr(i, t) ==
    IF i = 0 THEN th' = t /\ parked' = parked
    ELSE th' = th /\ parked' = [parked EXCEPT ![i] = t]
DevOf(i) == i + 1
LkEnter(op, d, h, pc) ==
    [Idle EXCEPT !.op = op, !.dev = d, !.tgt = h, !.pc = pc]

\* mutex_unlock(&hwpt->devices_lock) / mutex_unlock(&ioas->mutex)
UnlockDevices(k, h) == [k EXCEPT !.hwpt[h].devices_lock = FALSE]
UnlockIoas(k) == [k EXCEPT !.ioas.mutex = FALSE]

\* the lock a thread asks for at its position, and where it goes with it
WantsIoas(t) == t.pc \in {"la_mlock", "lg_mlock", "ld_mlock"}
WantsDevices(t) == t.pc \in {"la_dlock", "lg_dlock", "lg_ndlock", "ld_dlock"}
WantedHwpt(t) ==
    IF t.pc = "lg_dlock" THEN t.cur
    ELSE IF t.pc = "lg_ndlock" THEN t.newh ELSE t.tgt
AfterLock(pc) ==
    CASE pc = "la_mlock" -> "la_add"
      [] pc = "lg_mlock" -> "lg_scan"
      [] pc = "ld_mlock" -> "ld_dlock"
      [] pc = "la_dlock" -> "la_body"
      [] pc = "lg_dlock" -> "lg_body"
      [] pc = "lg_ndlock" -> "lg_nbody"
      [] OTHER -> "ld_body"

\* iommufd_device_attach() on an HWPT id: iommufd_get_object() holds a
\* reference on the HWPT until iommufd_put_object()
LkAttachHwpt(i, d, h) ==
    /\ Thr(i).pc = "idle" /\ d = DevOf(i)
    /\ Bound(d) /\ idev[d].hwpt = 0
    /\ hwpt[h].state = "final"
    /\ SetThr(i, LkEnter("attach_hwpt", d, h, "la_dlock"))
    /\ SetK(RefInc(K, h))
    /\ UNCHANGED platform

\* iommufd_device_attach() on the IOAS id
LkAttachIoas(i, d) ==
    /\ Thr(i).pc = "idle" /\ d = DevOf(i)
    /\ Bound(d) /\ idev[d].hwpt = 0
    /\ SetThr(i, LkEnter("attach_ioas", d, 0, "lg_mlock"))
    /\ UNCHANGED <<hwpt, ioas, lst, idev, ext, platform>>

\* iommufd_device_detach()
LkDetach(i, d) ==
    /\ Thr(i).pc = "idle" /\ d = DevOf(i)
    /\ Bound(d) /\ idev[d].hwpt # 0
    /\ SetThr(i, LkEnter("detach", d, idev[d].hwpt, "ld_mlock"))
    /\ UNCHANGED <<hwpt, ioas, lst, idev, ext, platform>>

\* mutex_lock(&ioas->mutex): device.c:285, 360, 393
LkLockIoas(i) ==
    LET t == Thr(i)
    IN  /\ WantsIoas(t)
        /\ ~ioas.mutex
        /\ ioas' = [ioas EXCEPT !.mutex = TRUE]
        /\ SetThr(i, [t EXCEPT !.pc = AfterLock(t.pc),
                               !.held = Append(@, IoasLock),
                               !.cur = IF t.pc = "lg_mlock"
                                       THEN ScanFirst(lst) ELSE @])
        /\ UNCHANGED <<hwpt, lst, idev, ext, platform>>

\* mutex_lock(&hwpt->devices_lock): device.c:208, 394
LkLockDevices(i) ==
    LET t == Thr(i)
        h == WantedHwpt(t)
    IN  /\ WantsDevices(t)
        /\ ~hwpt[h].devices_lock
        /\ hwpt' = [hwpt EXCEPT ![h].devices_lock = TRUE]
        /\ SetThr(i, [t EXCEPT !.pc = AfterLock(t.pc),
                               !.held = Append(@, h)])
        /\ UNCHANGED <<ioas, lst, idev, ext, platform>>

\* do_attach on the HWPT named by id, from after line 208 to its unlock; on
\* failure out_put_pt_obj
LkDoAttach(i) ==
    LET t == Thr(i)
    IN  /\ t.pc = "la_body"
        /\ \E in \in DoAttachInputs :
            LET r == DoAttach(K, t.dev, t.tgt, t.flags, in)
                k1 == UnlockDevices(r.k, t.tgt)
            IN  IF r.rc = "OK"
                THEN /\ SetK(k1)
                     /\ SetThr(i, [t EXCEPT !.pc = "la_mlock", !.held = <<>>])
                ELSE /\ SetK(RefDec(k1, t.tgt))
                     /\ SetThr(i, Done([t EXCEPT !.held = <<>>], r.rc, 0))
        /\ UNCHANGED platform

\* device.c:361-384: list_add_tail, mutex_unlock, the idev users increment,
\* iommufd_put_object
LkListAdd(i) ==
    LET t == Thr(i)
    IN  /\ t.pc = "la_add"
        /\ IF ValidNode(K, lst[ListHead].prev)
           THEN /\ SetK(RefDec(UnlockIoas(DirectPublish(K, t.dev, t.tgt)),
                               t.tgt))
                /\ SetThr(i, Done([t EXCEPT !.held = <<>>], "OK", t.tgt))
           ELSE /\ SetThr(i, Oops(t))
                /\ UNCHANGED <<hwpt, ioas, lst, idev, ext>>
        /\ UNCHANGED platform

\* one turn of list_for_each_entry in auto_get_domain up to the do_attach, or
\* the allocation after the loop
LkScan(i) ==
    LET t == Thr(i)
    IN  /\ t.pc = "lg_scan"
        /\ IF t.cur = ListHead
           THEN \/ /\ HasFreeSlot(K)
                   /\ SetK(AllocAuto(K))
                   /\ SetThr(i, [t EXCEPT !.pc = "lg_ndlock",
                                          !.newh = FreeSlot(K)])
                \/ /\ SetK(UnlockIoas(K))
                   /\ SetThr(i, Done([t EXCEPT !.held = <<>>], "ENOMEM", 0))
           ELSE IF ~ValidNode(K, t.cur)
           THEN /\ SetThr(i, Oops(t))
                /\ UNCHANGED <<hwpt, ioas, lst, idev, ext>>
           ELSE IF ~ScanCandidate(hwpt[t.cur])
           THEN /\ SetThr(i, [t EXCEPT !.cur = ScanNext(lst, t.cur)])
                /\ UNCHANGED <<hwpt, ioas, lst, idev, ext>>
           ELSE /\ SetK(RefInc(K, t.cur))
                /\ SetThr(i, [t EXCEPT !.pc = "lg_dlock"])
        /\ UNCHANGED platform

\* do_attach on a member of the list and what the loop does with its result
LkScanAttach(i) ==
    LET t == Thr(i)
    IN  /\ t.pc = "lg_body"
        /\ \E in \in DoAttachInputs :
            LET r == DoAttach(K, t.dev, t.cur, t.flags, in)
                k1 == RefDec(UnlockDevices(r.k, t.cur), t.cur)
            IN  IF ScanSkips(r.rc)
                THEN /\ SetK(k1)
                     /\ SetThr(i, [t EXCEPT !.pc = "lg_scan",
                                            !.held = <<IoasLock>>,
                                            !.cur = ScanNext(lst, t.cur)])
                ELSE IF r.rc # "OK"
                THEN /\ SetK(UnlockIoas(k1))
                     /\ SetThr(i, Done([t EXCEPT !.held = <<>>], r.rc, 0))
                ELSE /\ SetK(AutoFound(k1, t.dev))
                     /\ SetThr(i, Done([t EXCEPT !.held = <<>>, !.tgt = t.cur],
                                       "OK", t.cur))
        /\ UNCHANGED platform

\* do_attach on the new HWPT, then list_add_tail, unlock and finalize, or
\* out_abort
LkNewAttach(i) ==
    LET t == Thr(i)
        h == t.newh
    IN  /\ t.pc = "lg_nbody"
        /\ \E in \in DoAttachInputs :
            LET r == DoAttach(K, t.dev, h, t.flags, in)
                k1 == UnlockDevices(r.k, h)
            IN  IF r.rc # "OK"
                THEN /\ SetK(AutoAbort(k1, h))
                     /\ SetThr(i, Done([t EXCEPT !.held = <<>>], r.rc, 0))
                ELSE IF ~ValidNode(k1, lst[ListHead].prev)
                THEN /\ SetK(k1)
                     /\ SetThr(i, Oops([t EXCEPT !.held = <<IoasLock>>]))
                ELSE /\ SetK(AutoPublish(k1, t.dev, h))
                     /\ SetThr(i, Done([t EXCEPT !.held = <<>>, !.tgt = h],
                                       "OK", h))
        /\ UNCHANGED platform

\* the locked region of detach, the unlocks, and the put of the HWPT
LkDetachBody(i) ==
    LET t == Thr(i)
        h == t.tgt
    IN  /\ t.pc = "ld_body"
        /\ IF Len(hwpt[h].devices) = 1 /\ ListDelFaults(K, h)
           THEN /\ SetThr(i, Oops(t))
                /\ UNCHANGED <<hwpt, ioas, lst, idev, ext>>
           ELSE /\ SetK(DeviceDetach(UnlockIoas(UnlockDevices(K, h)), t.dev))
                /\ SetThr(i, Done([t EXCEPT !.held = <<>>], "OK", 0))
        /\ UNCHANGED platform

LkReturn(i) ==
    /\ Thr(i).pc = "done"
    /\ SetThr(i, Idle)
    /\ UNCHANGED <<hwpt, ioas, lst, idev, ext, platform>>

\* the steps of a call in progress on thread i
LkStep(i) ==
    \/ LkLockIoas(i)
    \/ LkLockDevices(i)
    \/ LkDoAttach(i)
    \/ LkListAdd(i)
    \/ LkScan(i)
    \/ LkScanAttach(i)
    \/ LkNewAttach(i)
    \/ LkDetachBody(i)

LockNext ==
    \/ \E i \in Threads, d \in ActiveDevs, h \in HwptIds : LkAttachHwpt(i, d, h)
    \/ \E i \in Threads, d \in ActiveDevs : LkAttachIoas(i, d)
    \/ \E i \in Threads, d \in ActiveDevs : LkDetach(i, d)
    \/ \E i \in Threads : LkStep(i)
    \/ \E i \in Threads : LkReturn(i)

InitLock ==
    /\ platform = "intr_remap"
    /\ th = Idle
    /\ parked = [i \in 1..NumParked |-> Idle]
    /\ InitK(BindAll(BaseK, ActiveDevs))

\* The CPUs run, and a mutex that is released again and again is handed to a
\* thread that waits for it: a call that can take a step again and again
\* takes one in the end.
SpecLock ==
    InitLock /\ [][LockNext]_vars /\ \A i \in Threads : SF_vars(LkStep(i))

\* ======================================================= properties, pasid.c
Users(h) == hwpt[h].users
PreUsers(h) == th.pre.hwpt[h].users
CurMap == idev[th.dev].pasid_hwpts[th.pasid]
PreMap == th.pre.idev[th.dev].pasid_hwpts[th.pasid]
InReplace == th.op = "pasid_replace"
InPasidAttach == th.op = "pasid_attach"
Finished == th.pc = "done"

\* C1: when do_replace returns successfully for a key that mapped to A and a
\* target B # A, the key maps to B, B has one reference more than before the
\* call, A's count is untouched and A is the value returned to the caller.
C1_ReplaceSuccess ==
    (InReplace /\ th.pc = "pr_ret") =>
        /\ PreMap # 0 /\ PreMap # th.tgt
        /\ CurMap = th.tgt
        /\ Users(th.tgt) = PreUsers(th.tgt) + 1
        /\ Users(PreMap) = PreUsers(PreMap)
        /\ th.ret = PreMap
C1_Witness == InReplace /\ th.pc = "pr_ret" /\ PreMap # 0 /\ CurMap = th.tgt

\* C2: a replace whose hardware swap failed returns the hardware's error with
\* the key mapped to the old HWPT again and every reference count as before
\* the call.
SwapFailed == InReplace /\ Finished /\ th.hwcalls = <<"replace">> /\ th.rc # "OK"
C2_ReplaceFailure ==
    SwapFailed =>
        /\ th.rc \in HwErrs
        /\ PreMap # 0 /\ CurMap = PreMap
        /\ \A h \in HwptIds : Users(h) = PreUsers(h)
C2_Witness == SwapFailed /\ CurMap # th.tgt

\* C3: from entry to return of a replace on a key that was mapped, the key
\* maps to the old or to the new HWPT, never to nothing.
C3_NoGap ==
    (InReplace /\ PreMap # 0) => (CurMap # 0 /\ CurMap \in {PreMap, th.tgt})
C3_Witness ==
    InReplace /\ PreMap # 0 /\ PreMap # th.tgt /\ th.pc = "pr_restore"

\* C7: pasid_attach on a key already mapped: to the target itself it returns
\* success with no hardware call, to another HWPT it returns -EBUSY; either
\* way the mapping and every reference count are as before the call.
C7_AttachMapped ==
    (InPasidAttach /\ Finished /\ PreMap # 0) =>
        /\ th.rc = (IF PreMap = th.tgt THEN "OK" ELSE "EBUSY")
        /\ th.hwcalls = <<>>
        /\ idev = th.pre.idev
        /\ \A h \in HwptIds : Users(h) = PreUsers(h)
C7_WitnessSame == InPasidAttach /\ Finished /\ PreMap = th.tgt /\ th.rc = "OK"
C7_WitnessOther ==
    InPasidAttach /\ Finished /\ PreMap # 0 /\ PreMap # th.tgt /\ th.rc = "EBUSY"

\* C8: pasid_attach on an unmapped key whose hardware setup failed returns
\* with the key unmapped and the target's reference count as before.
SetupFailed ==
    InPasidAttach /\ Finished /\ th.hwcalls = <<"attach">> /\ th.rc # "OK"
C8_SetupFailure ==
    SetupFailed =>
        /\ PreMap = 0 /\ CurMap = 0
        /\ Users(th.tgt) = PreUsers(th.tgt)
C8_Witness == SetupFailed /\ th.rc \in HwErrs

\* ====================================================== properties, device.c
InAttach == th.op \in {"attach_hwpt", "attach_ioas", "attach_bad"}
AttachReturnedError == InAttach /\ Finished /\ th.rc # "OK"
\* a do_attach of the call in progress has failed and none has succeeded:
\* the call returned its error, or the scan has skipped a candidate
DoAttachFailed ==
    \/ AttachReturnedError /\ th.fail # "none"
    \/ th.pc = "ag_scan" /\ th.skipped # {}

\* what do_attach has to restore, for device d
HwptView(k) ==
    [h \in HwptIds |-> [devices |-> k.hwpt[h].devices,
                        users |-> k.hwpt[h].users,
                        groups |-> k.hwpt[h].groups]]
ResvOf(k, d) == k.ioas.resv \cap {d}

\* C4 as claimed: after a failed do_attach the device lists, the reference
\* counts, the attached groups, the device's reserved-range records, the
\* registered domains and the binding's current HWPT are as before the call.
C4_Rollback ==
    DoAttachFailed =>
        /\ HwptView(K) = HwptView(th.pre)
        /\ ResvOf(K, th.dev) = ResvOf(th.pre, th.dev)
        /\ ioas.domains = th.pre.ioas.domains
        /\ idev[th.dev].hwpt = th.pre.idev[th.dev].hwpt

\* C4, what the code guarantees: everything but the device's reserved-range
\* records is as before the call; the records are as before when the device
\* had none, and past the coherency check none is left whatever it had.
C4_RollbackButResv ==
    DoAttachFailed =>
        /\ HwptView(K) = HwptView(th.pre)
        /\ ioas.domains = th.pre.ioas.domains
        /\ idev[th.dev].hwpt = th.pre.idev[th.dev].hwpt
        /\ ResvOf(th.pre, th.dev) = {} => ResvOf(K, th.dev) = {}
        /\ (Finished /\ th.fail # "coh") => ResvOf(K, th.dev) = {}
C4_Witness ==
    AttachReturnedError /\ th.fail = "domain" /\ ioas.domains # {}

\* ------------------------------------------------------------------------
Exists(h) == hwpt[h].state # "free"
Baseline == NewHwpt(FALSE).users      \* the reference held since creation
Holders(h) ==
    Cardinality({d \in Devices : idev[d].hwpt = h})
    + Cardinality({e \in Devices \X Pasids : idev[e[1]].pasid_hwpts[e[2]] = h})
BoundDevs(D) == Cardinality({d \in D : idev[d].state # "none"})
\* every reference count is what the bindings and attachments account for
RefsSettled ==
    /\ \A h \in HwptIds : Exists(h) => Users(h) = Baseline + Holders(h)
    /\ \A d \in Devices :
          idev[d].users = IF Bound(d)
                          THEN BindOk(BaseK, d, FALSE).idev[d].users
                               + (IF idev[d].hwpt # 0 THEN 1 ELSE 0)
                          ELSE NoIdev.users
    /\ ext.ctx_refs = BoundDevs(Devices)
    /\ \A g \in DOMAIN ext.group_refs :
          ext.group_refs[g] = BoundDevs({d \in Devices : DevGroup(d) = g})

\* C5: an existing HWPT never has fewer references than its creation
\* baseline, and whenever a call has completed (detach and unbind included)
\* each HWPT has the baseline plus one reference per binding attached to it
\* and every other count is the one the remaining bindings account for, so
\* that bind, attach, detach, unbind leaves the counts it found.
C5_Refcount ==
    /\ \A h \in HwptIds : Exists(h) => Users(h) >= Baseline
    /\ (IsIdle \/ Finished) => RefsSettled
C5_Witness ==
    /\ th.op = "detach" /\ Finished
    /\ Exists(th.tgt) /\ Holders(th.tgt) > 0
    /\ th.pre.hwpt[th.tgt].users = Users(th.tgt) + 1

\* ------------------------------------------------------------------------
Member(k, d, h) == d \in SeqSet(k.hwpt[h].devices)
PreList == HwptList(th.pre)
PreCandidates ==
    {h \in SeqSet(PreList) : ScanCandidate(th.pre.hwpt[h])}
\* the entries the scan reads before it reaches h
Before(h) ==
    {PreList[i] : i \in {j \in 1..Len(PreList) :
                            \A m \in 1..j : PreList[m] # h}}
IoasAttachOk == th.op = "attach_ioas" /\ Finished /\ th.rc = "OK"
Allocated == {h \in HwptIds : ~(th.pre.hwpt[h].state # "free") /\ Exists(h)}

\* C9: an attach through the IOAS that succeeds leaves the device attached to
\* an HWPT marked auto-created; when no entry of the member list is marked
\* auto-created, that HWPT is one the call has allocated.
C9_NeverManual ==
    IoasAttachOk =>
        /\ idev[th.dev].hwpt = th.tgt
        /\ Exists(th.tgt) /\ hwpt[th.tgt].auto_domain
        /\ (\A h \in SeqSet(PreList) : ~th.pre.hwpt[h].auto_domain) =>
              /\ Allocated = {th.tgt}
              /\ hwpt[th.tgt].devices = <<th.dev>>
C9_Witness ==
    /\ IoasAttachOk /\ PreList # <<>>
    /\ \A h \in SeqSet(PreList) : ~th.pre.hwpt[h].auto_domain
    /\ Allocated = {th.tgt}

\* C10: an attach through the IOAS that succeeds has tried do_attach on the
\* auto-created entries in list order: on every one the scan reads before
\* the HWPT it attached to, do_attach failed with -EINVAL, and those keep
\* their reference count; it allocates only when do_attach failed on every
\* auto-created entry; the listed HWPT it attaches to gains exactly one
\* reference.
C10_FirstCompatible ==
    IoasAttachOk =>
        /\ PreCandidates \cap Before(th.tgt) \subseteq th.skipped
        /\ th.skipped \subseteq PreCandidates
        /\ \A h \in th.skipped \ {th.tgt} : Exists(h) /\ Users(h) = PreUsers(h)
        /\ IF th.tgt \in PreCandidates
           THEN /\ Allocated = {}
                /\ Users(th.tgt) = PreUsers(th.tgt) + 1
           ELSE /\ th.skipped = PreCandidates
                /\ Allocated = {th.tgt}
C10_Witness ==
    /\ IoasAttachOk /\ th.skipped # {} /\ th.tgt \notin th.skipped
    /\ th.tgt \in PreCandidates /\ Allocated = {}

\* ------------------------------------------------------------------------
DetachDone == th.op = "detach" /\ Finished
\* some live list node still points at h
Linked(k, h) ==
    \E n \in Nodes \ {h} :
        ValidNode(k, n) /\ (k.lst[n].next = h \/ k.lst[n].prev = h)
Occurrences(k, h) ==
    Cardinality({i \in 1..Len(HwptList(k)) : HwptList(k)[i] = h})

\* C11: the HWPT a binding is attached to exists; when a binding detaches
\* from an auto-created HWPT that other bindings are attached to, the HWPT
\* stays, once in the member list; when the last one detaches, the HWPT is
\* destroyed and no node of the member list points at it any more.
C11_SharedAuto ==
    /\ \A d \in Devices : idev[d].hwpt # 0 => Exists(idev[d].hwpt)
    /\ (DetachDone /\ th.pre.hwpt[th.tgt].auto_domain) =>
          IF Len(th.pre.hwpt[th.tgt].devices) > 1
          THEN Exists(th.tgt) /\ Occurrences(K, th.tgt) = 1
          ELSE ~Exists(th.tgt) /\ ~Linked(K, th.tgt)
C11_Witness ==
    /\ DetachDone /\ th.pre.hwpt[th.tgt].auto_domain
    /\ ~Exists(th.tgt) /\ th.pre.hwpt[th.tgt].devices = <<th.dev>>
    /\ \E d \in Devices : idev[d].hwpt # 0

\* ------------------------------------------------------------------------
InPasidDetach == th.op = "pasid_detach"
OtherKeysKept ==
    \A d \in Devices, p \in Pasids :
        (d # th.dev \/ p # th.pasid) =>
            idev[d].pasid_hwpts[p] = th.pre.idev[d].pasid_hwpts[p]
HwptRefsSettled ==
    \A h \in HwptIds : Exists(h) => Users(h) = Baseline + Holders(h)

\* C12: a successful pasid_attach maps the key and adds one reference to the
\* target; pasid_detach of a mapped key unmaps it, tears the hardware down
\* once and takes that one reference back (destroying an auto-created HWPT
\* nothing else uses); between calls every HWPT has its creation reference
\* plus one per binding and per PASID entry, so that attach followed by
\* detach leaves the count it found.  pasid_detach of an unmapped key
\* changes nothing.
C12_DetachUndoes ==
    /\ (InPasidAttach /\ Finished /\ th.rc = "OK" /\ PreMap = 0) =>
          CurMap = th.tgt /\ Users(th.tgt) = PreUsers(th.tgt) + 1
    /\ (InPasidDetach /\ Finished /\ PreMap # 0) =>
          /\ CurMap = 0 /\ OtherKeysKept
          /\ th.hwcalls = <<"detach">>
          /\ idev[th.dev].hw_pasid[th.pasid] = 0
          /\ IF Exists(PreMap)
             THEN Users(PreMap) = PreUsers(PreMap) - 1
             ELSE th.pre.hwpt[PreMap].auto_domain
                  /\ PreUsers(PreMap) = Baseline + 1
          /\ \A h \in HwptIds \ {PreMap} : hwpt[h] = th.pre.hwpt[h]
    /\ (InPasidDetach /\ Finished /\ PreMap = 0) =>
          idev = th.pre.idev /\ hwpt = th.pre.hwpt /\ th.hwcalls = <<>>
    /\ (IsIdle \/ Finished) => HwptRefsSettled
C12_Witness ==
    /\ InPasidDetach /\ Finished /\ PreMap # 0 /\ CurMap = 0
    /\ Exists(PreMap) /\ Users(PreMap) = Baseline + Holders(PreMap)

\* ------------------------------------------------------------------------
ReplaceUnmapped == InReplace /\ Finished /\ PreMap = 0
NothingReplaced ==
    /\ th.hwcalls = <<>>
    /\ idev = th.pre.idev
    /\ \A h \in HwptIds : Users(h) = PreUsers(h)

\* C13 as claimed: a replace on an unmapped key returns -EINVAL, makes no
\* hardware call, leaves the key unmapped and the reference counts as before.
C13_ReplaceUnmapped ==
    ReplaceUnmapped => (th.rc = "EINVAL" /\ CurMap = 0 /\ NothingReplaced)

\* C13, amended: the error is -EINVAL, or -ENOMEM when xa_store could not
\* allocate the entry; no hardware call is made, the key is left unmapped
\* and the reference counts are as before.
C13_ReplaceUnmappedErr ==
    ReplaceUnmapped =>
        (th.rc \in {"EINVAL", "ENOMEM"} /\ CurMap = 0 /\ NothingReplaced)
C13_Witness == ReplaceUnmapped /\ th.rc = "EINVAL" /\ Users(th.tgt) > Baseline

\* ------------------------------------------------------------------------
PasidOps == {"pasid_attach", "pasid_replace", "pasid_detach"}
Calls == {th} \cup {parked[i] : i \in DOMAIN parked}
MapOf(t) == idev[t.dev].pasid_hwpts[t.pasid]
PreMapOf(t) == t.pre.idev[t.dev].pasid_hwpts[t.pasid]
\* what a call running alone has made of its key at each of its positions
AloneMap(t) ==
    IF t.pc \in {"pa_hw", "pa_erase", "pr_hw", "pr_ret", "pr_restore",
                 "pr_erase"} THEN t.tgt
    ELSE IF t.pc # "done" THEN PreMapOf(t)
    ELSE IF t.op = "pasid_detach" THEN 0
    ELSE IF t.op = "pasid_attach"
    THEN IF PreMapOf(t) = 0 /\ t.rc = "OK" THEN t.tgt ELSE PreMapOf(t)
    ELSE IF PreMapOf(t) # 0 /\ t.rc = "OK" THEN t.tgt ELSE PreMapOf(t)
\* the references a call running alone holds besides those of the mappings
AloneHolds(c, h) ==
    LET t == c[2] IN
    IF t.pc \in {"pa_xa", "pa_put", "pr_xa", "pr_put"} /\ t.tgt = h THEN 1
    ELSE IF t.pc \in {"pr_hw", "pr_ret", "pr_restore"} /\ t.curr = h THEN 1
    ELSE 0
RECURSIVE SumHolds(_, _)
SumHolds(C, h) ==
    IF C = {} THEN 0
    ELSE LET t == CHOOSE x \in C : TRUE
         IN  AloneHolds(t, h) + SumHolds(C \ {t}, h)
PasidCalls == {t \in Calls : t.op \in PasidOps}
HeldInFlight(h) ==
    SumHolds({<<i, parked[i]>> : i \in {j \in DOMAIN parked : parked[j].op \in PasidOps}}
             \cup (IF th.op \in PasidOps THEN {<<0, th>>} ELSE {}), h)

C15_Coherency ==
    /\ \A d \in Devices :
          (idev[d].hwpt # 0 /\ idev[d].ecc) => hwpt[idev[d].hwpt].ecc
    /\ (AttachReturnedError /\ th.fail = "coh") =>
          /\ th.rc = "EINVAL"
          /\ idev[th.dev].ecc /\ idev[th.dev].hwpt = 0
          /\ th.op = "attach_hwpt" =>
                ~th.pre.hwpt[th.tgt].ecc /\ ~hwpt[th.tgt].ecc
C15_Witness ==
    /\ AttachReturnedError /\ th.fail = "coh" /\ th.op = "attach_hwpt"
    /\ hwpt[th.tgt].devices # <<>>

\* ------------------------------------------------------------------------
AttachThrough == th.op \in {"attach_hwpt", "attach_ioas"} /\ Finished

\* C16: where interrupts are neither isolated natively nor remapped through
\* a software MSI window, MSI setup returns -EPERM without the
\* allow-unsafe-interrupt flag and succeeds with it, so that no attach
\* without the flag succeeds there and the one that reaches MSI setup returns
\* -EPERM with the device unattached; with native isolation MSI setup
\* succeeds whatever the flag, touching nothing.
C16_UnsafeInterrupts ==
    /\ \A cookie, flags \in BOOLEAN, in \in DoAttachInputs :
          LET r == SetupMsi(cookie, flags, in)
          IN  /\ platform = "none" =>
                    r.rc = (IF flags THEN "OK" ELSE "EPERM") /\ r.cookie = cookie
              /\ platform = "intr_remap" => r.rc = "OK" /\ r.cookie = cookie
    /\ (AttachThrough /\ platform = "none" /\ ~th.flags) =>
          /\ th.rc # "OK" /\ idev[th.dev].hwpt = 0
          /\ th.fail = "msi" => th.rc = "EPERM"
    /\ (AttachThrough /\ th.fail = "msi") =>
          \/ platform = "none" /\ ~th.flags
          \/ platform = "msi_remap"
C16_Witness ==
    /\ AttachThrough /\ th.fail = "msi" /\ platform = "none"
    /\ th.rc = "EPERM" /\ idev[th.dev].hwpt = 0

\* ------------------------------------------------------------------------
BindReturned == th.op = "bind" /\ Finished
Called(c) == \E i \in DOMAIN th.calls : th.calls[i] = c
BindingsOf(g) == {d \in Devices : DevGroup(d) = g /\ idev[d].state # "none"}

\* C17: a bind that fails leaves every object as it was before the call, the
\* device without owner, group reference or binding object: without the
\* coherency capability it returns -EINVAL before ownership is claimed, with
\* another owner on the device it returns the error of the claim, and when
\* the allocation fails it releases the ownership it had just claimed; a
\* bind that succeeds owns the device, and the ownership, one group reference
\* and one context reference are held for as long as the binding exists.
C17_BindAllOrNothing ==
    /\ (BindReturned /\ th.rc # "OK") =>
          /\ K = th.pre
          /\ ~ext.owner[th.dev] /\ idev[th.dev] = NoIdev
          /\ th.rc = "EINVAL" => ~Called("claim_dma_owner")
          /\ th.rc = "EBUSY" =>
                Called("claim_dma_owner") /\ ~Called("object_alloc")
          /\ th.rc = "ENOMEM" =>
                Called("claim_dma_owner") /\ Called("release_dma_owner")
    /\ (BindReturned /\ th.rc = "OK") =>
          /\ Bound(th.dev) /\ ext.owner[th.dev]
          /\ ~Called("release_dma_owner") /\ ~Called("group_put")
    /\ \A d \in Devices : ext.owner[d] <=> idev[d].state # "none"
    /\ \A g \in DOMAIN ext.group_refs :
          ext.group_refs[g] = Cardinality(BindingsOf(g))
    /\ ext.ctx_refs = Cardinality({d \in Devices : idev[d].state # "none"})
C17_Witness ==
    /\ BindReturned /\ th.rc = "ENOMEM"
    /\ Called("release_dma_owner") /\ ~ext.owner[th.dev]
    /\ ext.group_refs[DevGroup(th.dev)] = 1

\* ------------------------------------------------------------------------
UnbindReturned == th.op = "unbind" /\ Finished
Destroyed(d) == idev[d].state = "none"

\* C18: a binding that is attached is not destroyed: an unbind destroys the
\* binding exactly when the reference taken by attach is no longer held, and
\* otherwise leaves the object, attached as it was, in the device list of its
\* HWPT; every entry of every device list is an existing binding whose
\* current HWPT is that one.
C18_NoDestroyedMember ==
    /\ \A d \in Devices : idev[d].hwpt # 0 => ~Destroyed(d)
    /\ \A h \in HwptIds : \A d \in SeqSet(hwpt[h].devices) :
          ~Destroyed(d) /\ idev[d].hwpt = h
    /\ UnbindReturned =>
          /\ Destroyed(th.dev) <=> th.pre.idev[th.dev].hwpt = 0
          /\ ~Destroyed(th.dev) =>
                /\ th.rc = "WARN"
                /\ idev[th.dev].hwpt = th.pre.idev[th.dev].hwpt
                /\ hwpt = th.pre.hwpt
                /\ ext = th.pre.ext
C18_Witness ==
    /\ UnbindReturned /\ th.pre.idev[th.dev].hwpt # 0
    /\ ~Destroyed(th.dev)
    /\ th.dev \in SeqSet(hwpt[idev[th.dev].hwpt].devices)

\* ------------------------------------------------------------------------
CurHw == idev[th.dev].hw_pasid[th.pasid]
AttachOfUnmapped == InPasidAttach /\ PreMap = 0

\* C19 as stated: while pasid_attach runs on a key that was unmapped, the key
\* maps to the target only if the hardware setup of the key has completed.
C19_PublishAfterSetup ==
    (AttachOfUnmapped /\ CurMap = th.tgt) => CurHw = th.tgt

\* C19, amended: pasid_attach publishes the mapping before it asks for the
\* hardware setup and takes it back if the setup fails: the hardware is never
\* set up for a key that does not map to the target, the key maps to the
\* target without the hardware only between the xa_cmpxchg and the end of the
\* call, and on return the key maps to the target exactly when the setup
\* succeeded, and is unmapped otherwise.
C19_PublishedBeforeSetup ==
    AttachOfUnmapped =>
        /\ CurMap \in {0, th.tgt}
        /\ CurHw = th.tgt => CurMap = th.tgt
        /\ (CurMap = th.tgt /\ CurHw # th.tgt) =>
              /\ th.pc \in {"pa_hw", "pa_erase"}
              /\ CurHw = 0
        /\ th.pc = "pa_hw" => CurMap = th.tgt /\ th.hwcalls = <<>>
        /\ Finished =>
              /\ th.rc = "OK" <=> CurMap = th.tgt
              /\ th.rc = "OK" <=> CurHw = th.tgt
C19_Witness ==
    /\ AttachOfUnmapped /\ Finished /\ th.rc = "OK"
    /\ CurMap = th.tgt /\ CurHw = th.tgt /\ th.hwcalls = <<"attach">>

\* ------------------------------------------------------------------------
InScan == th.op = "attach_ioas"
\* the call returned the error of do_attach on a member of the list
ScanEndedByError == InScan /\ Finished /\ th.rc # "OK" /\ th.cur # ListHead
UsersAsBefore == \A h \in HwptIds : Users(h) = PreUsers(h)
C20_Scanning ==
    /\ InScan => th.errs \subseteq {"EINVAL"} /\ (th.errs = {} <=> th.skipped = {})
    /\ (InScan /\ th.pc = "ag_scan") => UsersAsBefore /\ Allocated = {}
    /\ ScanEndedByError =>
          /\ th.rc # "EINVAL"
          /\ UsersAsBefore
          /\ Allocated = {} /\ th.newh = 0
          /\ \A h \in HwptIds : hwpt[h].state = th.pre.hwpt[h].state
          /\ idev[th.dev].hwpt = 0 /\ ~ioas.mutex
    /\ (InScan /\ Finished /\ th.rc = "EINVAL") => th.cur = ListHead
\* a step that skips a member goes on to the member after it, and the
\* skipped member has the references it had
C20_SkipStep ==
    (InScan /\ th.pc = "ag_scan" /\ th'.skipped # th.skipped) =>
        /\ th'.pc = "ag_scan"
        /\ th'.skipped = th.skipped \cup {th.cur}
        /\ th'.cur = lst[th.cur].next
        /\ hwpt'[th.cur].users = hwpt[th.cur].users

\* C20: in the scan of auto_get_domain a member on which do_attach returns
\* -EINVAL, and no other, is skipped: its speculative reference is dropped
\* and the scan goes on to the next member; any other error of do_attach on
\* a member ends the call with that error, nothing allocated, the mutex
\* released, and every HWPT with the reference count it had before the call.
C20_ScanErrors == []C20_Scanning /\ [][C20_SkipStep]_vars
C20_Witness ==
    /\ ScanEndedByError /\ th.skipped # {}
    /\ th.cur \in PreCandidates \ th.skipped

\* ------------------------------------------------------------------------
\* the call has allocated an HWPT in auto_get_domain
HasNew == InScan /\ th.newh # 0
NewFailed == HasNew /\ Finished /\ th.rc # "OK"
\* some list node, the head included, points at h
Pointed(h) ==
    \E n \in Nodes \ {h} : lst[n].next = h \/ lst[n].prev = h
IsTail(h) == lst[ListHead].prev = h /\ lst[h].next = ListHead
C21_NewStates ==
    /\ (HasNew /\ th.pc = "ag_new") =>
          /\ hwpt[th.newh].state = "new" /\ hwpt[th.newh].auto_domain
          /\ ~Pointed(th.newh) /\ ioas.mutex
    /\ (HasNew /\ th.pc = "ag_fin") =>
          /\ hwpt[th.newh].state = "new" /\ IsTail(th.newh) /\ ioas.mutex
          /\ idev[th.dev].hwpt = th.newh
    /\ NewFailed =>
          /\ hwpt[th.newh] = FreeHwpt /\ ~Pointed(th.newh)
          /\ th.rc \in {"EINVAL", "ENOMEM", "EPERM"}
          /\ idev[th.dev].hwpt = 0 /\ ~ioas.mutex
    /\ (HasNew /\ Finished /\ th.rc = "OK") =>
          /\ hwpt[th.newh].state = "final" /\ IsTail(th.newh)
          /\ th.ret = th.newh /\ idev[th.dev].hwpt = th.newh
\* an allocated HWPT is finalized by the step after its list_add_tail only,
\* and enters the list in a step of the call that holds the mutex
C21_NewSteps ==
    \A h \in HwptIds :
        /\ (hwpt[h].state = "new" /\ hwpt'[h].state = "final") =>
              th.pc = "ag_fin" /\ th.newh = h /\ IsTail(h) /\ ioas.mutex
        /\ (hwpt[h].state = "new" /\ ~Pointed(h) /\ Pointed(h)') =>
              th.pc = "ag_new" /\ th.newh = h /\ ioas.mutex /\ ioas'.mutex

\* C21: an HWPT allocated by auto_get_domain on which do_attach fails is
\* destroyed when the call returns its error, no list node has pointed at it
\* and it was never finalized; one on which do_attach succeeds is put at the
\* tail of the member list with the mutex held, and finalized by the next
\* step, after the list_add_tail.
C21_NewHwpt == []C21_NewStates /\ [][C21_NewSteps]_vars
C21_Witness ==
    /\ NewFailed /\ th.fail \in {"group", "domain"}
    /\ PreList # <<>>

\* ------------------------------------------------------------------------
\* C22 as stated: iommu_get_msi_cookie() is called at most once for an HWPT.
C22_InstallCalledOnce == \A h \in HwptIds : hwpt[h].msi_calls <= 1

C22_CookieStates ==
    \A h \in HwptIds :
        /\ hwpt[h].msi_cookie => hwpt[h].msi_calls >= 1
        /\ hwpt[h].msi_calls >= 1 => platform = "msi_remap" /\ Exists(h)
\* an HWPT whose flag is set keeps it and is not asked again; the call is
\* made by a do_attach on an HWPT whose flag is clear, and unless the call
\* fails it sets the flag
C22_CookieSteps ==
    \A h \in HwptIds :
        /\ (hwpt[h].msi_cookie /\ hwpt'[h].state # "free") =>
              hwpt'[h].msi_cookie /\ hwpt'[h].msi_calls = hwpt[h].msi_calls
        /\ (hwpt'[h].state # "free" /\ hwpt'[h].msi_calls # hwpt[h].msi_calls) =>
              /\ ~hwpt[h].msi_cookie
              /\ hwpt'[h].msi_calls = hwpt[h].msi_calls + 1
              /\ hwpt'[h].msi_cookie \/ th'.fail = "msi" \/ th'.errs # th.errs

\* C22, amended: where a software MSI window is required, the attaches to an
\* HWPT call iommu_get_msi_cookie() only while the HWPT's msi_cookie flag is
\* clear; a call that does not fail sets the flag, the flag stays set for as
\* long as the HWPT exists, and no later attach calls it again. A call that
\* failed leaves the flag clear and the next attach calls again.
C22_InstallOnceSet == []C22_CookieStates /\ [][C22_CookieSteps]_vars
C22_Witness ==
    /\ th.op = "attach_hwpt" /\ Finished /\ th.rc = "OK"
    /\ th.pre.hwpt[th.tgt].msi_cookie /\ th.pre.hwpt[th.tgt].devices # <<>>
    /\ hwpt[th.tgt].msi_calls = 1 /\ Len(hwpt[th.tgt].devices) = 2

\* ------------------------------------------------------------------------
\* the devices of group g in the device list of h
GroupMembers(k, h, g) ==
    {d \in SeqSet(k.hwpt[h].devices) : DevGroup(d) = g}
Groups == {DevGroup(d) : d \in Devices}
\* the HWPT the last do_attach of the call in progress ran on
TriedHwpt ==
    IF th.op = "attach_hwpt" THEN th.tgt
    ELSE IF th.newh # 0 THEN th.newh ELSE th.cur
\* that do_attach got as far as the test of has_group
DoAttachAtGroup ==
    /\ \/ th.op = "attach_hwpt" /\ th.pc \in {"at_list", "done"}
       \/ InScan /\ th.pc \in {"ag_fin", "done"} /\ TriedHwpt # ListHead
    /\ th.fail \in {"none", "group", "domain"}

\* C23: between the calls, the domain of an HWPT is attached to a group
\* exactly when a device of the group is in the HWPT's device list; do_attach
\* calls attach_group exactly when the list holds no device of the group yet,
\* and detach calls detach_group exactly when no device of the group is left.
C23_GroupAttached ==
    /\ \A h \in HwptIds, g \in Groups :
          g \in hwpt[h].groups <=> GroupMembers(K, h, g) # {}
    /\ DoAttachAtGroup =>
          (Called("attach_group") <=>
              GroupMembers(th.pre, TriedHwpt, DevGroup(th.dev)) = {})
    /\ DetachDone =>
          (Called("detach_group") <=>
              GroupMembers(K, th.tgt, DevGroup(th.dev)) = {})
C23_Witness ==
    /\ DetachDone /\ Called("detach_group")
    /\ hwpt[th.tgt].devices # <<>>
    /\ DevGroup(th.dev) \notin hwpt[th.tgt].groups

\* ------------------------------------------------------------------------
BetweenCalls == IsIdle \/ Finished

\* C24: between the calls, an HWPT with a device in its device list is in
\* the member list of the IOAS once, and one with none is not in it and no
\* list node points at it.
C24_ListedOnce ==
    BetweenCalls =>
        \A h \in HwptIds :
            Exists(h) =>
                IF hwpt[h].devices # <<>>
                THEN Occurrences(K, h) = 1
                ELSE Occurrences(K, h) = 0 /\ ~Linked(K, h)
\* a second device has attached by id to a listed HWPT, and the list_add_tail
\* has made the item its own successor
C24_Witness ==
    /\ th.op = "attach_hwpt" /\ Finished /\ th.rc = "OK"
    /\ th.pre.hwpt[th.tgt].devices # <<>>
    /\ Occurrences(th.pre, th.tgt) = 1
    /\ lst[th.tgt].next = th.tgt
    /\ Occurrences(K, th.tgt) > 1

\* ------------------------------------------------------------------------
\* the last do_attach of the call got as far as the test of list_empty
DoAttachAtDomain == DoAttachAtGroup /\ th.fail \in {"none", "domain"}

\* C25: between the steps of the calls, the domain of an HWPT is in the set
\* of domains the IOAS propagates its mappings to exactly when the HWPT's
\* device list is not empty; do_attach calls iopt_table_add_domain exactly
\* when the list is empty, and detach calls iopt_table_remove_domain exactly
\* when it has removed the last device.
C25_DomainRegistered ==
    /\ \A h \in HwptIds : h \in ioas.domains <=> hwpt[h].devices # <<>>
    /\ DoAttachAtDomain =>
          /\ Called("add_domain") <=> th.pre.hwpt[TriedHwpt].devices = <<>>
          /\ Called("add_domain") => TriedHwpt \notin th.pre.ioas.domains
    /\ DetachDone =>
          /\ Called("remove_domain") <=> hwpt[th.tgt].devices = <<>>
          /\ Called("remove_domain") => th.tgt \in th.pre.ioas.domains
          /\ th.pre.hwpt[th.tgt].devices # <<>>
C25_Witness ==
    /\ DetachDone /\ ~Called("remove_domain") /\ Called("detach_group")
    /\ th.tgt \in ioas.domains

\* ------------------------------------------------------------------------
HoldsDevices(t) == \E n \in DOMAIN t.held : t.held[n] # IoasLock
\* a thread asks for ioas->mutex holding nothing, and for a devices_lock
\* holding at most ioas->mutex; what it holds is locked
LockOrder ==
    \A i \in Threads :
        LET t == Thr(i)
        IN  /\ WantsIoas(t) => t.held = <<>>
            /\ WantsDevices(t) => t.held \in {<<>>, <<IoasLock>>}
            /\ t.held \in {<<>>, <<IoasLock>>} \cup {<<h>> : h \in HwptIds}
                          \cup {<<IoasLock, h>> : h \in HwptIds}
            /\ \A n \in DOMAIN t.held :
                  IF t.held[n] = IoasLock THEN ioas.mutex
                  ELSE hwpt[t.held[n]].devices_lock
Waiting(t) ==
    \/ WantsIoas(t) /\ ioas.mutex
    \/ WantsDevices(t) /\ hwpt[WantedHwpt(t)].devices_lock
Faulted == \E i \in Threads : Thr(i).pc = "oops"
Running(t) == InFlight(t) /\ t.pc # "oops"
\* the calls in progress are not all waiting for a lock
NoDeadlock ==
    (\E i \in Threads : Running(Thr(i))) =>
        \E i \in Threads : Running(Thr(i)) /\ ~Waiting(Thr(i))

\* C26 as stated: the locks are taken IOAS first, devices second, the calls
\* in progress are never all waiting, and every call returns in the end.
C26_LocksAndReturn ==
    /\ []LockOrder
    /\ []NoDeadlock
    /\ \A i \in Threads : InFlight(Thr(i)) ~> Thr(i).pc = "done"

\* C26, the part about the locks: IOAS first, devices second, and as long as
\* no call has faulted some call in progress is not waiting for a lock.
C26_LockOrder == LockOrder /\ (~Faulted => NoDeadlock)
C26_Witness ==
    /\ Thr(0).pc = "lg_body" /\ Thr(0).held = <<IoasLock, Thr(0).cur>>
    /\ Thr(1).op = "detach" /\ Waiting(Thr(1))


\* ------------------------------------------------------------------------
\* the pointers to HWPT h kept in shared structures: idev->hwpt of a binding
\* and the entries of the pasid_hwpts arrays
StoredRefs(h) == Holders(h)
InDoAttachTail == th.pc = "da_count"
\* the success tail applied to the checked state is what do_attach returns
DoAttachEquals ==
    InDoAttachTail =>
        \E in \in DoAttachInputs :
            AttachCommit(DoAttachChecked(th.pre, th.dev, th.tgt, th.flags, in),
                         th.dev, th.tgt)
            = DoAttach(th.pre, th.dev, th.tgt, th.flags, in).k
FailedPastUpgrade ==
    /\ th.op = "attach_hwpt" /\ Finished /\ th.rc # "OK"
    /\ th.fail \in {"resv", "msi", "group", "domain"}
Upgraded == th.pre.idev[th.dev].ecc /\ ~th.pre.hwpt[th.tgt].ecc
\* iommu_get_msi_cookie was called and did not fail
Installed == Called("get_msi_cookie") /\ th.fail # "msi"
\* C28: a do_attach that fails after the coherency upgrade or after the MSI
\* window install leaves the HWPT's enforce_cache_coherency and msi_cookie
\* flags at the values they had before the call.
C28_FlagsRestored ==
    FailedPastUpgrade =>
        /\ hwpt[th.tgt].ecc = th.pre.hwpt[th.tgt].ecc
        /\ hwpt[th.tgt].msi_cookie = th.pre.hwpt[th.tgt].msi_cookie
\* C28 as the code has it: the two flags record what was done to the domain
\* and no unwind label touches them: after the failure the coherency flag is
\* set if it was set before or the call upgraded the domain, the cookie flag
\* if it was set before or the call installed the window.
C28_FlagsSticky ==
    FailedPastUpgrade =>
        /\ hwpt[th.tgt].ecc = (th.pre.hwpt[th.tgt].ecc \/ Upgraded)
        /\ hwpt[th.tgt].msi_cookie =
              (th.pre.hwpt[th.tgt].msi_cookie \/ Installed)
C28_Witness ==
    /\ FailedPastUpgrade /\ th.fail = "domain"
    /\ Upgraded /\ Installed
    /\ hwpt[th.tgt].ecc /\ hwpt[th.tgt].msi_cookie


\* ------------------------------------------------------------------------
NoneAttached == \A d \in Devices : idev[d].hwpt = 0
DetachReturned == th.op = "detach" /\ Finished
\* the devices that were on the HWPT with the detaching one, of its group
GroupMates ==
    {d \in SeqSet(th.pre.hwpt[th.tgt].devices) \ {th.dev} :
        DevGroup(d) = DevGroup(th.dev)}
\* C29: once every attached device has been detached, the IOAS holds no
\* reserved-range record owned by any of them, also when several devices of
\* one group were attached to the HWPT and detached in any order.
C29_NoRecordLeft ==
    (NoneAttached /\ (IsIdle \/ Finished)) => ioas.resv = {}
\* what detach does with the records: it removes those of the detaching
\* device when no other device of its group stays on the HWPT, and leaves
\* every record alone otherwise
C29_LastOfGroupOnly ==
    DetachReturned =>
        ioas.resv = IF GroupMates = {} THEN th.pre.ioas.resv \ {th.dev}
                    ELSE th.pre.ioas.resv
C29_Witness ==
    /\ DetachReturned /\ NoneAttached
    /\ th.pre.ioas.resv = {1, 2} /\ ioas.resv # {}


\* ------------------------------------------------------------------------
\* the attach ioctl has attached and then failed to copy the id out
CopyFailed == th.pc = "io_err"
DefaultHwpt(k, d) == k.idev[d].hwpt
\* C30: when the handler has attached and copy_to_user of the pagetable id
\* fails, it returns the error and undoes the attachment it has just made:
\* with the PASID flag the (device, PASID) attachment is removed and the
\* default attachment of the device is as before; without the flag the
\* default attachment is removed.
C30_UndoesItsAttach ==
    CopyFailed =>
        /\ th.rc = "EFAULT"
        /\ IF WithPasidFlag(th)
           THEN /\ PreMap = 0 => CurMap = 0
                /\ DefaultHwpt(K, th.dev) = DefaultHwpt(th.pre, th.dev)
           ELSE DefaultHwpt(K, th.dev) = 0
\* what the handler does: it returns the error and calls detach_ioas for
\* either kind of attach, so that the default attachment is gone in both
\* cases and the (device, PASID) attachment just made stays, with its
\* reference
C30_DetachesDefault ==
    CopyFailed =>
        /\ th.rc = "EFAULT"
        /\ DefaultHwpt(K, th.dev) = 0
        /\ WithPasidFlag(th) =>
              /\ CurMap = th.tgt
              /\ Exists(th.tgt) /\ Users(th.tgt) >= Baseline + StoredRefs(th.tgt)
C30_Witness ==
    /\ CopyFailed /\ WithPasidFlag(th)
    /\ PreMap = 0 /\ CurMap = th.tgt
    /\ DefaultHwpt(th.pre, th.dev) # 0 /\ DefaultHwpt(K, th.dev) = 0

====
